---- MODULE Spec2Model ----
(***************************************************************************)
(* Model of adapt-authoring-integration-tests:                             *)
(*   lib/app.js       the cached handle of the booted application          *)
(*   lib/fixtures.js  manifest merging and isolated fixture copies         *)
(*   bin/run.js       the test runner (selection, aggregation, execution)  *)
(* Every async function is cut at its await points: the part that runs     *)
(* synchronously up to an await is one action, the continuation the next.  *)
(* The three parts run in different settings (run.js is the parent         *)
(* process, the libraries live in the test process), so each has its own   *)
(* specification over the shared variable list.                            *)
(***************************************************************************)
EXTENDS Naturals, Integers, Sequences, FiniteSets, TLC

VARIABLES
  \* ---- lib/app.js
  app,            \* module variable `app`: "undefined" or the handle
  nodeEnv,        \* process.env.NODE_ENV of the test process
  onReadyCalls,   \* number of invocations of App.instance.onReady()
  appPc,          \* per caller: position inside getApp()
  appRet,         \* per caller: value getApp() resolved to
  appHit,         \* per caller: the call found `app` set when it started
  \* ---- bin/run.js
  runPc,          \* position of the runner script
  args,           \* process.argv.slice(2)
  argIdx,         \* index of the next name of the for..of loop over args
  testsDirFiles,  \* directory listing of <ROOT>/tests
  customDir,      \* process.env.CUSTOM_DIR of the runner: "unset", "notests", "tests"
  customFiles,    \* directory listing of <CUSTOM_DIR>/tests
  testFiles,      \* the array testFiles
  dropCalls,      \* number of dropTestDb() calls of this run
  dbDropped,      \* the database was dropped during this run
  dropResult,     \* what dropTestDb() resolved to: "none", "true", "false"
  entryFile,      \* the generated entry file: <<>> when absent, else <<imports>>
  entryWrites,    \* number of times the entry file was written
  launches,       \* sequence of the entry-file contents node --test was launched on
  testStatus,     \* outcome of execSync: "none", "zero", "nonzero", "spawnfail"
  exitCode,       \* exit status of the runner: -1 while running
  unlinkResult,   \* fs.unlinkSync(entryFile): "none", "removed", "failed"
  \* ---- lib/db.js
  dbPc,           \* position inside dropTestDb()
  dbCwd,          \* the argument cwd of the running call
  dbConfigFile,   \* what <appDir>/conf/<NODE_ENV>.config.js is
  dbResult,       \* what the call resolved to: "none", "true", "false", "rejected"
  dbFault,        \* the step of the call that raised, or "noUri", or "none"
  dbConnOpen,     \* number of connections that are open
  dbHasData,      \* the test database holds data
  dbEffect,       \* history: dropDatabase() succeeded during the running call
  dbCallCount,    \* number of dropTestDb() calls
  \* ---- lib/app.js: getModule and cleanDb
  modOp,          \* the call of the client: "none", "getModule", "cleanDb"
  modPc,          \* its position
  modName,        \* the name given to getModule()
  modArg,         \* the argument of cleanDb(): "undefined" or a list of names
  modColls,       \* the parameter `collections` after its default
  modIdx,         \* index of the loop over `collections`
  modHandle,      \* `a`: what getApp() resolved to
  modWaits,       \* history: the waitForModule() invocations, <<handle, name>>
  modAttempts,    \* history: the collections the loop went through, with outcome
  modError,       \* what the call rejected with: "none", "boot", "module"
  modCalls,       \* number of calls of the client
  collDocs,       \* the collections that hold documents
  \* ---- lib/fixtures.js
  manifest,       \* module variable `manifest`: the merged manifest, or unset
  resolvedDirs,   \* module variable `resolvedDirs`: key -> source directory, or unset
  tempDir,        \* module variable `tempDir`: 0 when undefined, else the directory
  envCustomDir,   \* process.env.CUSTOM_DIR is set
  standardFile,   \* <FIXTURES_DIR>/manifest.json
  customFile,     \* <CUSTOM_DIR>/fixtures/manifest.json
  disk,           \* the files: path -> content
  tmpDirs,        \* the temp directories that exist
  mkdtemps,       \* number of directories fs.mkdtemp() has made
  clock,          \* the last value Date.now() returned
  task,           \* per caller: the running call, its position and its locals
  last,           \* the call that ended last: its locals and its outcome
  fixCalls,       \* number of calls started
  envSteps,       \* number of steps the test code took around the calls
  returned,       \* history: the paths getFixture() returned since the last cleanup
  aliased,        \* history: getFixture() returned a path that `returned` held already
  resetPending,   \* history: no getManifest()/getFixture() call has started since
                  \* the last resetManifest()
  \* ---- lib/fixtures.js: the directories getManifest() reads
  procEnv,        \* process.env: FIXTURES_DIR, CUSTOM_FIXTURES_DIR, CUSTOM_DIR
  dirPc,          \* position inside getManifest()
  dirCustomDir,   \* the local `customDir`
  dirReads        \* history: the directories readManifest() was called on

varsApp == <<app, nodeEnv, onReadyCalls, appPc, appRet, appHit>>
varsRun == <<runPc, args, argIdx, testsDirFiles, customDir, customFiles, testFiles,
             dropCalls, dbDropped, dropResult, entryFile, entryWrites, launches, testStatus, exitCode,
             unlinkResult>>
varsDb == <<dbPc, dbCwd, dbConfigFile, dbResult, dbFault, dbConnOpen, dbHasData, dbEffect,
            dbCallCount>>
varsMod == <<modOp, modPc, modName, modArg, modColls, modIdx, modHandle, modWaits,
             modAttempts, modError, modCalls, collDocs>>

\* What the actions of one part leave alone: the variables of the other parts.
varsFix == <<manifest, resolvedDirs, tempDir, envCustomDir, standardFile, customFile, disk,
             tmpDirs, mkdtemps, clock, task, last, fixCalls, envSteps, returned, aliased,
             resetPending>>
varsDir == <<procEnv, dirPc, dirCustomDir, dirReads>>
AppFrame == UNCHANGED <<varsRun, varsFix, varsDb, varsMod, varsDir>>
RunFrame == UNCHANGED <<varsApp, varsFix, varsDb, varsMod, varsDir>>
FixFrame == UNCHANGED <<varsApp, varsRun, varsDb, varsMod, varsDir>>
DbFrame == UNCHANGED <<varsApp, varsRun, varsFix, varsMod, varsDir>>
DirFrame == UNCHANGED <<varsApp, varsRun, varsFix, varsDb, varsMod>>
\* getModule() and cleanDb() work on `app` through getApp().
ModFrame == UNCHANGED <<appPc, appRet, appHit, varsRun, varsFix, varsDb, varsDir>>

(***************************************************************************)
(* Bounds of the model.                                                    *)
(***************************************************************************)
NumCallers == 3
MaxOnReadyCalls == 3
MaxArgs == 2
NumFixCallers == 2
MaxFixCalls == 3
MaxEnvSteps == 1
MaxClock == 1
MaxDbCalls == 2
MaxModCalls == 2

Undefined == "undefined"

(***************************************************************************)
(* lib/app.js                                                              *)
(***************************************************************************)
Callers == 1..NumCallers

\* App.instance: the singleton of adapt-authoring-core; onReady() resolves to it.
AppInstance == "App.instance"

AppInit ==
  /\ app = Undefined
  /\ nodeEnv \in {Undefined, "production"}
  /\ onReadyCalls = 0
  /\ appPc = [c \in Callers |-> "idle"]
  /\ appRet = [c \in Callers |-> Undefined]
  /\ appHit = [c \in Callers |-> FALSE]

\* Mutant of GetApp: the cache test `if (app) return app` is missing.
GetAppNoCacheTest(c) ==
  /\ appPc[c] = "idle"
  /\ onReadyCalls < MaxOnReadyCalls
  /\ appHit' = [appHit EXCEPT ![c] = (app # Undefined)]
  /\ nodeEnv' = IF nodeEnv = Undefined THEN "testing" ELSE nodeEnv
  /\ onReadyCalls' = onReadyCalls + 1
  /\ appPc' = [appPc EXCEPT ![c] = "awaitReady"]
  /\ UNCHANGED <<app, appRet>>
  /\ AppFrame

\* getApp(), from the call to the first await (or to the early return).
GetApp(c) ==
  /\ appPc[c] = "idle"
  /\ appHit' = [appHit EXCEPT ![c] = (app # Undefined)]
  /\ IF app # Undefined
       THEN /\ appRet' = [appRet EXCEPT ![c] = app]
            /\ appPc' = [appPc EXCEPT ![c] = "done"]
            /\ UNCHANGED <<app, nodeEnv, onReadyCalls>>
       ELSE /\ onReadyCalls < MaxOnReadyCalls
            /\ nodeEnv' = IF nodeEnv = Undefined THEN "testing" ELSE nodeEnv
            /\ onReadyCalls' = onReadyCalls + 1
            /\ appPc' = [appPc EXCEPT ![c] = "awaitReady"]
            /\ UNCHANGED <<app, appRet>>
  /\ AppFrame

\* The readiness promise resolved: `app = await ...; return app`.
GetAppReady(c) ==
  /\ appPc[c] = "awaitReady"
  /\ app' = AppInstance
  /\ appRet' = [appRet EXCEPT ![c] = app']
  /\ appPc' = [appPc EXCEPT ![c] = "done"]
  /\ UNCHANGED <<nodeEnv, onReadyCalls, appHit>>
  /\ AppFrame

\* Mutant of GetAppRejected: the handle is stored before it is awaited
\* (`app = App.instance; await app.onReady()`), so a failed boot leaves it cached.
GetAppRejectedKeepsHandle(c) ==
  /\ appPc[c] = "awaitReady"
  /\ app' = AppInstance
  /\ appPc' = [appPc EXCEPT ![c] = "failed"]
  /\ UNCHANGED <<nodeEnv, onReadyCalls, appRet, appHit>>
  /\ AppFrame

\* The readiness promise rejected: the await throws, getApp() rejects.
GetAppRejected(c) ==
  /\ appPc[c] = "awaitReady"
  /\ appPc' = [appPc EXCEPT ![c] = "failed"]
  /\ UNCHANGED <<app, nodeEnv, onReadyCalls, appRet, appHit>>
  /\ AppFrame

\* The caller has consumed the outcome and may call again.
AppCallerContinues(c) ==
  /\ appPc[c] \in {"done", "failed"}
  /\ appPc' = [appPc EXCEPT ![c] = "idle"]
  /\ appRet' = [appRet EXCEPT ![c] = Undefined]
  /\ appHit' = [appHit EXCEPT ![c] = FALSE]
  /\ UNCHANGED <<app, nodeEnv, onReadyCalls>>
  /\ AppFrame

AppNext ==
  \/ \E c \in Callers : GetApp(c)
  \/ \E c \in Callers : GetAppReady(c)
  \/ \E c \in Callers : GetAppRejected(c)
  \/ \E c \in Callers : AppCallerContinues(c)

(***************************************************************************)
(* bin/run.js                                                              *)
(* File names are sequences of UTF-16 code units, so that endsWith() and   *)
(* the default Array.prototype.sort() order are computed, not assumed.     *)
(***************************************************************************)
SpecExt == <<46, 115, 112, 101, 99, 46, 106, 115>>   \* ".spec.js"
JsExt == <<46, 106, 115>>                            \* ".js"
StemA == <<97>>                                      \* "a"
StemB == <<98>>                                      \* "b"
StemAB == <<97, 98>>                                 \* "ab"
StemD == <<100>>                                     \* "d"
StemX == <<120>>                                     \* "x"

\* Names a listing of <ROOT>/tests may hold: a.spec.js, b.spec.js, ab.spec.js, a.js
PrimaryPool == {StemA \o SpecExt, StemB \o SpecExt, StemAB \o SpecExt, StemA \o JsExt}
\* Names a listing of <CUSTOM_DIR>/tests may hold: d.spec.js, a.spec.js, x.js
CustomPool == {StemD \o SpecExt, StemA \o SpecExt, StemX \o JsExt}
\* "--import-only", the subset flag of the older runner, and the spec file it named
FlagImportOnly == <<45, 45, 105, 109, 112, 111, 114, 116, 45, 111, 110, 108, 121>>
ImportSpecName == <<97, 100, 97, 112, 116, 102, 114, 97, 109, 101, 119, 111, 114, 107, 45, 105, 109, 112, 111, 114, 116, 46, 115, 112, 101, 99, 46, 106, 115>>
\* What the command line may hold: the suite names a, b, x (x.spec.js never
\* exists) and the flag
ArgNames == {StemA, StemB, StemX, FlagImportOnly}

RECURSIVE SeqsUpTo(_, _)
SeqsUpTo(S, n) ==
  IF n = 0 THEN {<<>>}
  ELSE LET shorter == SeqsUpTo(S, n - 1)
       IN shorter \cup {Append(q, x) : q \in shorter, x \in S}

\* String.prototype.endsWith
EndsWith(s, suffix) ==
  /\ Len(s) >= Len(suffix)
  /\ SubSeq(s, Len(s) - Len(suffix) + 1, Len(s)) = suffix

\* The order of the default sort(): strings compared by UTF-16 code units.
RECURSIVE CodeUnitLess(_, _)
CodeUnitLess(a, b) ==
  IF a = <<>> THEN b # <<>>
  ELSE IF b = <<>> THEN FALSE
  ELSE IF a[1] # b[1] THEN a[1] < b[1]
  ELSE CodeUnitLess(Tail(a), Tail(b))

\* Mutant of SortedSpecFiles: the listing is filtered but sorted downwards.
RECURSIVE SpecFilesDescending(_)
SpecFilesDescending(listing) ==
  LET specs == {f \in listing : EndsWith(f, SpecExt)}
  IN IF specs = {} THEN <<>>
     ELSE LET greatest == CHOOSE x \in specs : \A y \in specs \ {x} : CodeUnitLess(y, x)
          IN <<greatest>> \o SpecFilesDescending(specs \ {greatest})

\* fs.readdirSync(dir).filter(f => f.endsWith('.spec.js')).sort()
RECURSIVE SortedSpecFiles(_)
SortedSpecFiles(listing) ==
  LET specs == {f \in listing : EndsWith(f, SpecExt)}
  IN IF specs = {} THEN <<>>
     ELSE LET first == CHOOSE x \in specs : \A y \in specs \ {x} : CodeUnitLess(x, y)
          IN <<first>> \o SortedSpecFiles(specs \ {first})

\* files.map(f => path.join(dir, f))
JoinAll(dir, names) == [i \in 1..Len(names) |-> [dir |-> dir, name |-> names[i]]]

\* Outcomes of dropTestDb() (lib/db.js): where the try block stopped.
DropOutcomes == {"noConfig", "noUri", "connectFailed", "dropFailed", "closeFailed", "dropped"}

RunInit ==
  /\ runPc = "collect"
  /\ args \in SeqsUpTo(ArgNames, MaxArgs)
  /\ argIdx = 1
  /\ testsDirFiles \in SUBSET PrimaryPool
  /\ customDir \in {"unset", "notests", "tests"}
  /\ customFiles \in IF customDir = "tests" THEN SUBSET CustomPool ELSE {{}}
  /\ testFiles = <<>>
  /\ dropCalls = 0
  /\ dbDropped = FALSE
  /\ dropResult = "none"
  /\ entryFile = <<>>
  /\ entryWrites = 0
  /\ launches = <<>>
  /\ testStatus = "none"
  /\ exitCode = -1
  /\ unlinkResult = "none"

\* Mutant of ResolveSuite: a missing suite is skipped instead of ending the run.
ResolveSuiteSkipsMissing ==
  /\ runPc = "collect"
  /\ Len(args) > 0
  /\ LET name == args[argIdx]
         specFile == [dir |-> "tests", name |-> name \o SpecExt]
     IN /\ testFiles' = IF specFile.name \in testsDirFiles
                          THEN Append(testFiles, specFile) ELSE testFiles
        /\ argIdx' = argIdx + 1
        /\ runPc' = IF argIdx = Len(args) THEN "custom" ELSE "collect"
        /\ UNCHANGED exitCode
  /\ UNCHANGED <<args, testsDirFiles, customDir, customFiles, dropCalls, dbDropped,
                 dropResult, entryFile, entryWrites, launches, testStatus,
                 unlinkResult>>
  /\ RunFrame

\* Mutant of ResolveSuite: the name is pushed without the fs.existsSync() test.
ResolveSuiteUnchecked ==
  /\ runPc = "collect"
  /\ Len(args) > 0
  /\ LET name == args[argIdx]
         specFile == [dir |-> "tests", name |-> name \o SpecExt]
     IN /\ testFiles' = Append(testFiles, specFile)
        /\ argIdx' = argIdx + 1
        /\ runPc' = IF argIdx = Len(args) THEN "custom" ELSE "collect"
        /\ UNCHANGED exitCode
  /\ UNCHANGED <<args, testsDirFiles, customDir, customFiles, dropCalls, dbDropped,
                 dropResult, entryFile, entryWrites, launches, testStatus,
                 unlinkResult>>
  /\ RunFrame

\* Mutant of ResolveSuite: a suite named twice is pushed once.
ResolveSuiteOnce ==
  /\ runPc = "collect"
  /\ Len(args) > 0
  /\ LET name == args[argIdx]
         specFile == [dir |-> "tests", name |-> name \o SpecExt]
     IN IF specFile.name \notin testsDirFiles
          THEN /\ exitCode' = 1
               /\ runPc' = "exited"
               /\ UNCHANGED <<testFiles, argIdx>>
          ELSE /\ testFiles' = IF \E i \in 1..Len(testFiles) : testFiles[i] = specFile
                                 THEN testFiles ELSE Append(testFiles, specFile)
               /\ argIdx' = argIdx + 1
               /\ runPc' = IF argIdx = Len(args) THEN "custom" ELSE "collect"
               /\ UNCHANGED exitCode
  /\ UNCHANGED <<args, testsDirFiles, customDir, customFiles, dropCalls, dbDropped,
                 dropResult, entryFile, entryWrites, launches, testStatus,
                 unlinkResult>>
  /\ RunFrame

\* One iteration of `for (const name of args)`.
ResolveSuite ==
  /\ runPc = "collect"
  /\ Len(args) > 0
  /\ LET name == args[argIdx]
         specFile == [dir |-> "tests", name |-> name \o SpecExt]
     IN IF specFile.name \notin testsDirFiles
          THEN /\ exitCode' = 1
               /\ runPc' = "exited"
               /\ UNCHANGED <<testFiles, argIdx>>
          ELSE /\ testFiles' = Append(testFiles, specFile)
               /\ argIdx' = argIdx + 1
               /\ runPc' = IF argIdx = Len(args) THEN "custom" ELSE "collect"
               /\ UNCHANGED exitCode
  /\ UNCHANGED <<args, testsDirFiles, customDir, customFiles, dropCalls, dbDropped,
                 dropResult, entryFile, entryWrites, launches, testStatus,
                 unlinkResult>>
  /\ RunFrame

\* The else branch: scan <ROOT>/tests.
ScanTests ==
  /\ runPc = "collect"
  /\ Len(args) = 0
  /\ testFiles' = testFiles \o JoinAll("tests", SortedSpecFiles(testsDirFiles))
  /\ runPc' = "custom"
  /\ UNCHANGED <<args, argIdx, testsDirFiles, customDir, customFiles, dropCalls, dbDropped,
                 dropResult, entryFile, entryWrites, launches, testStatus, exitCode,
                 unlinkResult>>
  /\ RunFrame

\* Mutant of AddCustomTests: the script goes on without `await dropTestDb()`.
AddCustomTestsSkipsDrop ==
  /\ runPc = "custom"
  /\ testFiles' = IF customDir = "tests"
                    THEN testFiles \o JoinAll("custom", SortedSpecFiles(customFiles))
                    ELSE testFiles
  /\ runPc' = "write"
  /\ UNCHANGED <<args, argIdx, testsDirFiles, customDir, customFiles, dropCalls, dbDropped,
                 dropResult, entryFile, entryWrites, launches, testStatus, exitCode,
                 unlinkResult>>
  /\ RunFrame

\* `if (customDir) { ... if (fs.existsSync(customTestsDir)) { ... } }`
AddCustomTests ==
  /\ runPc = "custom"
  /\ testFiles' = IF customDir = "tests"
                    THEN testFiles \o JoinAll("custom", SortedSpecFiles(customFiles))
                    ELSE testFiles
  /\ runPc' = "drop"
  /\ UNCHANGED <<args, argIdx, testsDirFiles, customDir, customFiles, dropCalls, dbDropped,
                 dropResult, entryFile, entryWrites, launches, testStatus, exitCode,
                 unlinkResult>>
  /\ RunFrame

\* Mutant of DropTestDb: a drop that did not succeed ends the run.
DropTestDbFatal ==
  /\ runPc = "drop"
  /\ \E outcome \in DropOutcomes :
       /\ dbDropped' = (outcome \in {"closeFailed", "dropped"})
       /\ dropResult' = IF outcome = "dropped" THEN "true" ELSE "false"
       /\ runPc' = IF outcome = "dropped" THEN "write" ELSE "exited"
       /\ exitCode' = IF outcome = "dropped" THEN exitCode ELSE 1
  /\ dropCalls' = dropCalls + 1
  /\ UNCHANGED <<args, argIdx, testsDirFiles, customDir, customFiles, testFiles,
                 entryFile, entryWrites, launches, testStatus, unlinkResult>>
  /\ RunFrame

\* `await dropTestDb()`: the database is gone once dropDatabase() has succeeded,
\* the call resolves to true only when close() has succeeded as well.
DropTestDb ==
  /\ runPc = "drop"
  /\ \E outcome \in DropOutcomes :
       /\ dbDropped' = (outcome \in {"closeFailed", "dropped"})
       /\ dropResult' = IF outcome = "dropped" THEN "true" ELSE "false"
  /\ dropCalls' = dropCalls + 1
  /\ runPc' = "write"
  /\ UNCHANGED <<args, argIdx, testsDirFiles, customDir, customFiles, testFiles,
                 entryFile, entryWrites, launches, testStatus, exitCode,
                 unlinkResult>>
  /\ RunFrame

\* fs.writeFileSync(entryFile, imports + '\n'): one import line per selected file.
WriteEntryFile ==
  /\ runPc = "write"
  /\ entryFile' = <<testFiles>>
  /\ entryWrites' = entryWrites + 1
  /\ runPc' = "exec"
  /\ UNCHANGED <<args, argIdx, testsDirFiles, customDir, customFiles, testFiles,
                 dropCalls, dbDropped, dropResult, launches, testStatus, exitCode,
                 unlinkResult>>
  /\ RunFrame

\* Mutant of ExecTests: no entry file is used, the test runner is started once for
\* each selected spec file.
ExecTestsPerSpec ==
  /\ runPc = "exec"
  /\ \E status \in {"zero", "nonzero", "spawnfail"} :
       /\ testStatus' = status
       /\ launches' = IF status = "spawnfail" THEN launches
                      ELSE launches \o [i \in 1..Len(testFiles) |-> <<testFiles[i]>>]
  /\ runPc' = "finally"
  /\ UNCHANGED <<args, argIdx, testsDirFiles, customDir, customFiles, testFiles,
                 dropCalls, dbDropped, dropResult, entryFile, entryWrites, exitCode,
                 unlinkResult>>
  /\ RunFrame

\* execSync(cmd): returns when the test process exits with status zero, throws when
\* it exits nonzero or cannot be spawned.
ExecTests ==
  /\ runPc = "exec"
  /\ \E status \in {"zero", "nonzero", "spawnfail"} :
       /\ testStatus' = status
       /\ launches' = IF status = "spawnfail" THEN launches
                      ELSE Append(launches, entryFile[1])
  /\ runPc' = "finally"
  /\ UNCHANGED <<args, argIdx, testsDirFiles, customDir, customFiles, testFiles,
                 dropCalls, dbDropped, dropResult, entryFile, entryWrites, exitCode,
                 unlinkResult>>
  /\ RunFrame

\* Mutant of UnlinkEntryFile: no `finally`, the file is unlinked only when
\* execSync() returned.
UnlinkOnlyOnSuccess ==
  /\ runPc = "finally"
  /\ IF testStatus = "zero"
       THEN \E unlinked \in BOOLEAN :
              /\ entryFile' = IF unlinked THEN <<>> ELSE entryFile
              /\ unlinkResult' = IF unlinked THEN "removed" ELSE "failed"
       ELSE UNCHANGED <<entryFile, unlinkResult>>
  /\ exitCode' = IF testStatus = "zero" THEN 0 ELSE 1
  /\ runPc' = "exited"
  /\ UNCHANGED <<args, argIdx, testsDirFiles, customDir, customFiles, testFiles,
                 dropCalls, dbDropped, dropResult, entryWrites, launches, testStatus>>
  /\ RunFrame

\* Mutant of UnlinkEntryFile: the exception of execSync() is caught and dropped.
UnlinkEntryFileExitsZero ==
  /\ runPc = "finally"
  /\ \E unlinked \in BOOLEAN :
       /\ entryFile' = IF unlinked THEN <<>> ELSE entryFile
       /\ unlinkResult' = IF unlinked THEN "removed" ELSE "failed"
  /\ exitCode' = 0
  /\ runPc' = "exited"
  /\ UNCHANGED <<args, argIdx, testsDirFiles, customDir, customFiles, testFiles,
                 dropCalls, dbDropped, dropResult, entryWrites, launches, testStatus>>
  /\ RunFrame

\* `finally { try { fs.unlinkSync(entryFile) } catch {} }`, then the end of the
\* script: a pending exception of execSync is uncaught and ends node with status 1.
UnlinkEntryFile ==
  /\ runPc = "finally"
  /\ \E unlinked \in BOOLEAN :
       /\ entryFile' = IF unlinked THEN <<>> ELSE entryFile
       /\ unlinkResult' = IF unlinked THEN "removed" ELSE "failed"
  /\ exitCode' = IF testStatus = "zero" THEN 0 ELSE 1
  /\ runPc' = "exited"
  /\ UNCHANGED <<args, argIdx, testsDirFiles, customDir, customFiles, testFiles,
                 dropCalls, dbDropped, dropResult, entryWrites, launches, testStatus>>
  /\ RunFrame

RunNext ==
  \/ ResolveSuite
  \/ ScanTests
  \/ AddCustomTests
  \/ DropTestDb
  \/ WriteEntryFile
  \/ ExecTests
  \/ UnlinkEntryFile

(***************************************************************************)
(* lib/db.js                                                               *)
(* dropTestDb(cwd) cut at its awaits: the import of the config file, the   *)
(* import of the driver, connect(), dropDatabase(), close().               *)
(***************************************************************************)
\* What dropTestDb() may be given as cwd: the app directory (the one whose conf/
\* holds the config file, if any), a directory without conf/, a value that is no
\* string (path.resolve throws on it).
CwdInputs == {"appDir", "noConfDir", "notAString"}

\* What <cwd>/conf/<NODE_ENV>.config.js may be: absent; a module that throws when
\* evaluated; a module without default export; a config without the
\* 'adapt-authoring-mongodb' section; a section without connectionUri; a
\* connectionUri the driver rejects; a connectionUri it accepts.
ConfigFiles == {"absent", "throws", "noDefault", "noSection", "noUri", "badUri", "uri"}

\* The steps of dropTestDb() that may raise.
DbFaults == {"none", "cwd", "configImport", "configRead", "noUri", "driverImport",
             "client", "connect", "drop", "close"}

DbInit ==
  /\ dbPc = "idle"
  /\ dbCwd = "none"
  /\ dbConfigFile \in ConfigFiles
  /\ dbResult = "none"
  /\ dbFault = "none"
  /\ dbConnOpen = 0
  /\ dbHasData \in BOOLEAN
  /\ dbEffect = FALSE
  /\ dbCallCount = 0

\* Mutant of DbCatch: there is no catch block, the exception leaves dropTestDb().
DbRethrow(fault) ==
  /\ dbPc' = "done"
  /\ dbFault' = fault
  /\ dbResult' = "rejected"

\* `catch (e) { return false }`: the exception raised at `fault` ends the call.
DbCatch(fault) ==
  /\ dbPc' = "done"
  /\ dbFault' = fault
  /\ dbResult' = "false"

\* A call dropTestDb(cwd), to its first await: path.resolve(cwd, 'conf', ...) and
\* the start of import(configPath).
DropTestDbCall(cwd) ==
  /\ dbPc = "idle"
  /\ dbCallCount < MaxDbCalls
  /\ dbCallCount' = dbCallCount + 1
  /\ dbCwd' = cwd
  /\ dbEffect' = FALSE
  /\ IF cwd = "notAString"
       THEN DbCatch("cwd")
       ELSE dbPc' = "importConfig" /\ dbFault' = "none" /\ dbResult' = "none"
  /\ UNCHANGED <<dbConfigFile, dbConnOpen, dbHasData>>
  /\ DbFrame

\* import(configPath) has settled: `.default`, the connectionUri, `if (!uri)
\* return false`, and the start of import('mongodb').
DbImportConfig ==
  /\ dbPc = "importConfig"
  /\ LET file == IF dbCwd = "appDir" THEN dbConfigFile ELSE "absent"
     IN CASE file \in {"absent", "throws"} -> DbCatch("configImport")
          [] file = "noDefault" -> DbCatch("configRead")
          [] file \in {"noSection", "noUri"} ->
               dbPc' = "done" /\ dbFault' = "noUri" /\ dbResult' = "false"
          [] OTHER -> dbPc' = "importDriver" /\ UNCHANGED <<dbFault, dbResult>>
  /\ UNCHANGED <<dbCwd, dbConfigFile, dbConnOpen, dbHasData, dbEffect, dbCallCount>>
  /\ DbFrame

\* import('mongodb') has settled: new MongoClient(uri), the start of connect().
DbImportDriver ==
  /\ dbPc = "importDriver"
  /\ \E installed \in BOOLEAN :
       IF ~installed THEN DbCatch("driverImport")
       ELSE IF dbConfigFile = "badUri" THEN DbCatch("client")
       ELSE dbPc' = "connect" /\ UNCHANGED <<dbFault, dbResult>>
  /\ UNCHANGED <<dbCwd, dbConfigFile, dbConnOpen, dbHasData, dbEffect, dbCallCount>>
  /\ DbFrame

\* client.connect() has settled; on success the start of dropDatabase().
DbConnect ==
  /\ dbPc = "connect"
  /\ \E ok \in BOOLEAN :
       IF ok THEN /\ dbConnOpen' = dbConnOpen + 1
                  /\ dbPc' = "drop"
                  /\ UNCHANGED <<dbFault, dbResult>>
       ELSE DbCatch("connect") /\ UNCHANGED dbConnOpen
  /\ UNCHANGED <<dbCwd, dbConfigFile, dbHasData, dbEffect, dbCallCount>>
  /\ DbFrame

\* client.db().dropDatabase() has settled; on success the start of close().
DbDropDatabase ==
  /\ dbPc = "drop"
  /\ \E ok \in BOOLEAN :
       IF ok THEN /\ dbHasData' = FALSE
                  /\ dbEffect' = TRUE
                  /\ dbPc' = "close"
                  /\ UNCHANGED <<dbFault, dbResult>>
       ELSE DbCatch("drop") /\ UNCHANGED <<dbHasData, dbEffect>>
  /\ UNCHANGED <<dbCwd, dbConfigFile, dbConnOpen, dbCallCount>>
  /\ DbFrame

\* client.close() has settled; on success `return true`.
DbClose ==
  /\ dbPc = "close"
  /\ \E ok \in BOOLEAN :
       IF ok THEN /\ dbConnOpen' = dbConnOpen - 1
                  /\ dbPc' = "done"
                  /\ dbResult' = "true"
                  /\ UNCHANGED dbFault
       ELSE DbCatch("close") /\ UNCHANGED dbConnOpen
  /\ UNCHANGED <<dbCwd, dbConfigFile, dbHasData, dbEffect, dbCallCount>>
  /\ DbFrame

\* The caller has the result; the tests that run next fill the database again.
DbCallerContinues ==
  /\ dbPc = "done"
  /\ dbPc' = "idle"
  /\ \E filled \in BOOLEAN : dbHasData' = (dbHasData \/ filled)
  /\ UNCHANGED <<dbCwd, dbConfigFile, dbResult, dbFault, dbConnOpen, dbEffect, dbCallCount>>
  /\ DbFrame

DbNext ==
  \/ \E cwd \in CwdInputs : DropTestDbCall(cwd)
  \/ DbImportConfig
  \/ DbImportDriver
  \/ DbConnect
  \/ DbDropDatabase
  \/ DbClose
  \/ DbCallerContinues

(***************************************************************************)
(* lib/app.js: getModule(name) and cleanDb(collections)                    *)
(* One client calls them, one call at a time (a test file's hooks); the    *)
(* getApp() inside getModule() works on the same `app` as every other      *)
(* getApp() call.                                                          *)
(***************************************************************************)
\* Mutant of DEFAULT_CLEAN_COLLECTIONS: the list without 'contentplugins'.
CleanCollectionsWithoutPlugins == <<"content", "assets", "courseassets", "tags", "adaptbuilds">>

\* export const DEFAULT_CLEAN_COLLECTIONS
DEFAULT_CLEAN_COLLECTIONS ==
  <<"content", "assets", "courseassets", "tags", "adaptbuilds", "contentplugins">>

\* Arguments of cleanDb(): none, the empty list, one name, a list with a repeated
\* name and a collection that does not exist.
CleanDbArgs == {Undefined, <<>>, <<"content">>, <<"tags", "nosuch", "tags">>}
\* Arguments of getModule().
ModuleNames == {"mongodb", "adaptframework"}
\* The collections that hold documents when the tests start.
CollectionSets == {{}, {"content"}, {"content", "assets", "tags", "contentplugins"}}

ModInit ==
  /\ modOp = "none"
  /\ modPc = "idle"
  /\ modName = ""
  /\ modArg = Undefined
  /\ modColls = <<>>
  /\ modIdx = 0
  /\ modHandle = Undefined
  /\ modWaits = <<>>
  /\ modAttempts = <<>>
  /\ modError = "none"
  /\ modCalls = 0
  /\ collDocs \in CollectionSets

\* getModule(name) from its call: `const a = await getApp()`. With `app` set
\* getApp() returns it and `a.waitForModule(name)` is called; else getApp() goes
\* on to App.instance.onReady().
EnterGetModule(name) ==
  /\ modName' = name
  /\ modAttempts' = <<>>
  /\ modError' = "none"
  /\ modIdx' = 0
  /\ IF app # Undefined
       THEN /\ modHandle' = app
            /\ modWaits' = Append(modWaits, <<app, name>>)
            /\ modPc' = "waitForModule"
            /\ UNCHANGED <<app, nodeEnv, onReadyCalls>>
       ELSE /\ nodeEnv' = IF nodeEnv = Undefined THEN "testing" ELSE nodeEnv
            /\ onReadyCalls' = onReadyCalls + 1
            /\ modPc' = "awaitReady"
            /\ UNCHANGED <<app, modHandle, modWaits>>

\* A call getModule(name).
GetModule(name) ==
  /\ modPc = "idle"
  /\ modCalls < MaxModCalls
  /\ modCalls' = modCalls + 1
  /\ modOp' = "getModule"
  /\ EnterGetModule(name)
  /\ UNCHANGED <<modArg, modColls, collDocs>>
  /\ ModFrame

\* A call cleanDb(collections): `const mongodb = await getModule('mongodb')`.
CleanDb(collections) ==
  /\ modPc = "idle"
  /\ modCalls < MaxModCalls
  /\ modCalls' = modCalls + 1
  /\ modOp' = "cleanDb"
  /\ modArg' = collections
  /\ modColls' = IF collections = Undefined THEN DEFAULT_CLEAN_COLLECTIONS ELSE collections
  /\ EnterGetModule("mongodb")
  /\ UNCHANGED collDocs
  /\ ModFrame

\* The onReady() of the getApp() inside getModule() resolved: `app = await ...;
\* return app`, then `return a.waitForModule(name)`.
ModAppReady ==
  /\ modPc = "awaitReady"
  /\ app' = AppInstance
  /\ modHandle' = app'
  /\ modWaits' = Append(modWaits, <<app', modName>>)
  /\ modPc' = "waitForModule"
  /\ UNCHANGED <<nodeEnv, onReadyCalls, modOp, modName, modArg, modColls, modIdx,
                 modAttempts, modError, modCalls, collDocs>>
  /\ ModFrame

\* Mutant of ModAppRejected: the rejection of getApp() is caught and
\* App.instance.waitForModule(name) is called all the same.
ModAppRejectedWaitsAnyway ==
  /\ modPc = "awaitReady"
  /\ modHandle' = AppInstance
  /\ modWaits' = Append(modWaits, <<AppInstance, modName>>)
  /\ modPc' = "waitForModule"
  /\ UNCHANGED <<app, nodeEnv, onReadyCalls, modOp, modName, modArg, modColls, modIdx,
                 modAttempts, modError, modCalls, collDocs>>
  /\ ModFrame

\* That onReady() rejected: getApp() rejects, and so does getModule().
ModAppRejected ==
  /\ modPc = "awaitReady"
  /\ modPc' = "failed"
  /\ modError' = "boot"
  /\ UNCHANGED <<app, nodeEnv, onReadyCalls, modOp, modName, modArg, modColls, modIdx,
                 modHandle, modWaits, modAttempts, modCalls, collDocs>>
  /\ ModFrame

\* a.waitForModule(name) resolved: getModule() returns the module; cleanDb() enters
\* its loop with the first `mongodb.getCollection(name).deleteMany({})`.
ModuleReady ==
  /\ modPc = "waitForModule"
  /\ IF modOp = "cleanDb" /\ Len(modColls) > 0
       THEN modPc' = "deleteMany" /\ modIdx' = 1
       ELSE modPc' = "done" /\ UNCHANGED modIdx
  /\ UNCHANGED <<app, nodeEnv, onReadyCalls, modOp, modName, modArg, modColls,
                 modHandle, modWaits, modAttempts, modError, modCalls, collDocs>>
  /\ ModFrame

\* a.waitForModule(name) rejected: the rejection is the one of getModule().
ModuleFailed ==
  /\ modPc = "waitForModule"
  /\ modPc' = "failed"
  /\ modError' = "module"
  /\ UNCHANGED <<app, nodeEnv, onReadyCalls, modOp, modName, modArg, modColls, modIdx,
                 modHandle, modWaits, modAttempts, modCalls, collDocs>>
  /\ ModFrame

\* Mutant of ClearCollection: no try/catch around the deleteMany() of the loop.
ClearCollectionUncaught ==
  /\ modPc = "deleteMany"
  /\ LET name == modColls[modIdx]
     IN \E outcome \in {"cleared", "getCollectionThrew", "deleteManyRejected"} :
          /\ modAttempts' = Append(modAttempts, [name |-> name, outcome |-> outcome])
          /\ collDocs' = IF outcome = "cleared" THEN collDocs \ {name} ELSE collDocs
          /\ IF outcome # "cleared"
               THEN modPc' = "failed" /\ modError' = "collection" /\ UNCHANGED modIdx
               ELSE /\ UNCHANGED modError
                    /\ IF modIdx = Len(modColls)
                         THEN modPc' = "done" /\ UNCHANGED modIdx
                         ELSE modPc' = "deleteMany" /\ modIdx' = modIdx + 1
  /\ UNCHANGED <<app, nodeEnv, onReadyCalls, modOp, modName, modArg, modColls,
                 modHandle, modWaits, modCalls>>
  /\ ModFrame

\* One turn of `for (const name of collections)`: getCollection(name) throws, or
\* deleteMany({}) rejects, or it removes every document; the catch block is empty.
ClearCollection ==
  /\ modPc = "deleteMany"
  /\ LET name == modColls[modIdx]
     IN \E outcome \in {"cleared", "getCollectionThrew", "deleteManyRejected"} :
          /\ modAttempts' = Append(modAttempts, [name |-> name, outcome |-> outcome])
          /\ collDocs' = IF outcome = "cleared" THEN collDocs \ {name} ELSE collDocs
  /\ IF modIdx = Len(modColls)
       THEN modPc' = "done" /\ UNCHANGED modIdx
       ELSE modPc' = "deleteMany" /\ modIdx' = modIdx + 1
  /\ UNCHANGED <<app, nodeEnv, onReadyCalls, modOp, modName, modArg, modColls,
                 modHandle, modWaits, modError, modCalls>>
  /\ ModFrame

\* The client has the outcome; the tests that follow insert documents.
ModCallerContinues ==
  /\ modPc \in {"done", "failed"}
  /\ modPc' = "idle"
  /\ \E inserted \in {{}, {"content"}} : collDocs' = collDocs \cup inserted
  /\ UNCHANGED <<app, nodeEnv, onReadyCalls, modOp, modName, modArg, modColls, modIdx,
                 modHandle, modWaits, modAttempts, modError, modCalls>>
  /\ ModFrame

ModNext ==
  \/ \E name \in ModuleNames : GetModule(name)
  \/ \E collections \in CleanDbArgs : CleanDb(collections)
  \/ ModAppReady
  \/ ModAppRejected
  \/ ModuleReady
  \/ ModuleFailed
  \/ ClearCollection
  \/ ModCallerContinues

(***************************************************************************)
(* lib/fixtures.js                                                         *)
(***************************************************************************)
FixCallers == 1..NumFixCallers

FixturesDir == "fixtures"            \* FIXTURES_DIR
CustomFixturesDir == "custom/fixtures"  \* path.join(process.env.CUSTOM_DIR, 'fixtures')

\* Arguments of getFixture(): a key of both manifests, a key of the custom manifest
\* only, and a name every plain object inherits from Object.prototype.
FixtureKeys == {"course-export", "client-course", "constructor"}
ObjectPrototypeKeys == {"constructor"}

EmptyMap == [k \in {} |-> ""]
\* What a manifest.json on disk can be.
AbsentFile == [kind |-> "absent", map |-> EmptyMap]
MalformedFile == [kind |-> "malformed", map |-> EmptyMap]
JsonFile(map) == [kind |-> "json", map |-> map]
StandardJson == JsonFile("course-export" :> "export.zip")
CollidingJson == JsonFile("course-export" :> "client.zip")
DisjointJson == JsonFile("client-course" :> "client.zip")
\* The fixture sets: CUSTOM_DIR set or not, and the two manifest files.
Setup(env, standard, custom) == [env |-> env, standard |-> standard, custom |-> custom]
FixtureSetups ==
  {Setup(TRUE, StandardJson, CollidingJson),    \* a key in both manifests
   Setup(TRUE, StandardJson, DisjointJson),     \* disjoint keys
   Setup(FALSE, StandardJson, AbsentFile),      \* built-in fixtures only
   Setup(TRUE, AbsentFile, DisjointJson),       \* custom fixtures only
   Setup(TRUE, AbsentFile, AbsentFile),         \* no manifest at all
   Setup(TRUE, MalformedFile, CollidingJson)}   \* a manifest that cannot be parsed

\* Paths. A source fixture is <dir>/<file>; a copy is
\* <tmp dir>/<key>-<Date.now()>-<file>, kept as its parts.
SourcePath(dir, file) == [tmp |-> 0, dir |-> dir, key |-> "", time |-> 0, file |-> file]
TempPath(tmp, key, time, file) ==
  [tmp |-> tmp, dir |-> "os.tmpdir", key |-> key, time |-> time, file |-> file]
NoPath == [tmp |-> 0, dir |-> "", key |-> "", time |-> 0, file |-> ""]
IsSourcePath(p) == p.tmp = 0 /\ p.dir \in {FixturesDir, CustomFixturesDir}
IsTempPath(p) == p.tmp > 0

\* The fixture files the source directories may hold.
SourceFilePool ==
  {SourcePath(FixturesDir, "export.zip"), SourcePath(FixturesDir, "client.zip"),
   SourcePath(CustomFixturesDir, "client.zip")}
SourceFileSets == {SourceFilePool, {SourcePath(FixturesDir, "export.zip")}}

\* A file system: path -> content; a fixture's content is named after its own path.
FilesOf(paths) == [p \in paths |-> <<p.dir, p.file>>]
WriteFile(fs, p, content) == [q \in DOMAIN fs \cup {p} |-> IF q = p THEN content ELSE fs[q]]
RemovePaths(fs, gone) == [q \in DOMAIN fs \ gone |-> fs[q]]

\* obj[key] on a plain object: an own property, else what Object.prototype has.
Lookup(map, key) ==
  IF key \in DOMAIN map THEN [kind |-> "string", val |-> map[key]]
  ELSE IF key \in ObjectPrototypeKeys THEN [kind |-> "function", val |-> ""]
  ELSE [kind |-> "undefined", val |-> ""]
Truthy(v) == v.kind = "function" \/ (v.kind = "string" /\ v.val # "")

\* getCustomFixturesDir()
GetCustomFixturesDir == IF envCustomDir THEN CustomFixturesDir ELSE ""

\* readManifest(dir) once the file has been read: null when the file is absent.
\* (A file that cannot be parsed makes readManifest throw: see ReadStandard.)
NullManifest == [isNull |-> TRUE, map |-> EmptyMap]
ReadManifest(file) ==
  IF file.kind = "json" THEN [isNull |-> FALSE, map |-> file.map] ELSE NullManifest

\* Mutant of MergedManifest: the custom manifest is not merged in.
MergedManifestStandardOnly(standard, custom) ==
  IF standard.isNull THEN custom.map ELSE standard.map

\* The two loops that fill `manifest`: the custom entries are assigned last.
MergedManifest(standard, custom) ==
  [k \in DOMAIN standard.map \cup DOMAIN custom.map |->
     IF k \in DOMAIN custom.map THEN custom.map[k] ELSE standard.map[k]]

\* The same two loops filling `resolvedDirs`.
MergedDirs(standard, custom, customDirLocal) ==
  [k \in DOMAIN standard.map \cup DOMAIN custom.map |->
     IF k \in DOMAIN custom.map THEN customDirLocal ELSE FixturesDir]

\* `manifest` carries, beside its entries, the two manifests it was built from.
UnsetManifest ==
  [set |-> FALSE, map |-> EmptyMap, standard |-> NullManifest, custom |-> NullManifest]
UnsetDirs == [set |-> FALSE, map |-> EmptyMap]

IdleTask ==
  [op |-> "none", pc |-> "idle", key |-> "", customDir |-> "",
   standard |-> NullManifest, m |-> UnsetManifest, fixturePath |-> NoPath, tmp |-> 0,
   destPath |-> NoPath, error |-> "none", errKeys |-> {}, errPath |-> NoPath,
   \* history: what the two reads of this call found on disk
   sawStandard |-> "unread", sawCustom |-> "unread"]

FixInit ==
  /\ manifest = UnsetManifest
  /\ resolvedDirs = UnsetDirs
  /\ tempDir = 0
  /\ \E s \in FixtureSetups :
       /\ envCustomDir = s.env
       /\ standardFile = s.standard
       /\ customFile = s.custom
  /\ disk \in {FilesOf(s) : s \in SourceFileSets}
  /\ tmpDirs = {}
  /\ mkdtemps = 0
  /\ clock = 0
  /\ task = [c \in FixCallers |-> IdleTask]
  /\ last = IdleTask
  /\ aliased = FALSE
  /\ fixCalls = 0
  /\ envSteps = 0
  /\ returned = {}
  /\ resetPending = FALSE

\* The next position of caller c. A call that has ended leaves its outcome in
\* `last` and the caller free to call again.
SetTask(c, t) ==
  IF t.pc \in {"done", "failed"}
    THEN task' = [task EXCEPT ![c] = IdleTask] /\ last' = t
    ELSE task' = [task EXCEPT ![c] = t] /\ UNCHANGED last
Fail(t, error) == [t EXCEPT !.pc = "failed", !.error = error]

\* getManifest() from its call to its first await: `if (manifest) return manifest`,
\* else getCustomFixturesDir() and the start of the first readManifest().
EnterGetManifest(c, op, key) ==
  LET t == [IdleTask EXCEPT !.op = op, !.key = key]
  IN IF manifest.set
       THEN SetTask(c, [t EXCEPT !.m = manifest,
                                 !.pc = IF op = "getFixture" THEN "gotManifest" ELSE "done"])
       ELSE SetTask(c, [t EXCEPT !.customDir = GetCustomFixturesDir, !.pc = "readStandard"])

\* Mutant of FinishGetManifest: the error is thrown when either manifest is missing.
FinishGetManifestNeedsBoth(c, t, standard, custom) ==
  IF standard.isNull \/ custom.isNull
    THEN /\ SetTask(c, Fail(t, "ConfigurationMissing"))
         /\ UNCHANGED <<manifest, resolvedDirs>>
    ELSE LET built == [set |-> TRUE, map |-> MergedManifest(standard, custom),
                       standard |-> standard, custom |-> custom]
         IN /\ manifest' = built
            /\ resolvedDirs' = [set |-> TRUE,
                                map |-> MergedDirs(standard, custom, t.customDir)]
            /\ SetTask(c, [t EXCEPT !.m = built,
                                    !.pc = IF t.op = "getFixture" THEN "gotManifest" ELSE "done"])

\* Mutant of FinishGetManifest: `manifest = {}; resolvedDirs = {}` comes before the
\* test for two null manifests, so the failure leaves an empty manifest cached.
FinishGetManifestCachesFailure(c, t, standard, custom) ==
  LET built == [set |-> TRUE, map |-> MergedManifest(standard, custom),
                standard |-> standard, custom |-> custom]
  IN /\ manifest' = built
     /\ resolvedDirs' = [set |-> TRUE, map |-> MergedDirs(standard, custom, t.customDir)]
     /\ IF standard.isNull /\ custom.isNull
          THEN SetTask(c, Fail(t, "ConfigurationMissing"))
          ELSE SetTask(c, [t EXCEPT !.m = built,
                                    !.pc = IF t.op = "getFixture" THEN "gotManifest" ELSE "done"])

\* getManifest() after its last read: the error when both manifests are null,
\* else the build of `manifest` and `resolvedDirs` and `return manifest`.
FinishGetManifest(c, t, standard, custom) ==
  IF standard.isNull /\ custom.isNull
    THEN /\ SetTask(c, Fail(t, "ConfigurationMissing"))
         /\ UNCHANGED <<manifest, resolvedDirs>>
    ELSE LET built == [set |-> TRUE, map |-> MergedManifest(standard, custom),
                       standard |-> standard, custom |-> custom]
         IN /\ manifest' = built
            /\ resolvedDirs' = [set |-> TRUE,
                                map |-> MergedDirs(standard, custom, t.customDir)]
            /\ SetTask(c, [t EXCEPT !.m = built,
                                    !.pc = IF t.op = "getFixture" THEN "gotManifest" ELSE "done"])

\* A call of getManifest().
GetManifest(c) ==
  /\ task[c].pc = "idle"
  /\ fixCalls < MaxFixCalls
  /\ fixCalls' = fixCalls + 1
  /\ EnterGetManifest(c, "getManifest", "")
  /\ resetPending' = FALSE
  /\ UNCHANGED <<manifest, resolvedDirs, tempDir, disk, tmpDirs, mkdtemps, clock,
                 returned, aliased, envCustomDir, standardFile, customFile, envSteps>>
  /\ FixFrame

\* A call of getFixture(key): `const m = await getManifest()`.
GetFixture(c, key) ==
  /\ task[c].pc = "idle"
  /\ fixCalls < MaxFixCalls
  /\ fixCalls' = fixCalls + 1
  /\ EnterGetManifest(c, "getFixture", key)
  /\ resetPending' = FALSE
  /\ UNCHANGED <<manifest, resolvedDirs, tempDir, disk, tmpDirs, mkdtemps, clock,
                 returned, aliased, envCustomDir, standardFile, customFile, envSteps>>
  /\ FixFrame

\* `const standard = await readManifest(FIXTURES_DIR)` has its result.
ReadStandard(c) ==
  /\ task[c].pc = "readStandard"
  /\ LET t0 == [task[c] EXCEPT !.sawStandard = standardFile.kind]
         t == [t0 EXCEPT !.standard = ReadManifest(standardFile)]
         standard == t.standard
     IN IF standardFile.kind = "malformed"
          THEN /\ SetTask(c, Fail(t0, "ManifestUnreadable"))
               /\ UNCHANGED <<manifest, resolvedDirs>>
          ELSE IF t.customDir # ""
            THEN /\ SetTask(c, [t EXCEPT !.pc = "readCustom"])
                 /\ UNCHANGED <<manifest, resolvedDirs>>
            ELSE FinishGetManifest(c, t, standard, NullManifest)
  /\ UNCHANGED <<tempDir, disk, tmpDirs, mkdtemps, clock, returned, aliased, fixCalls,
                 envCustomDir, standardFile, customFile, envSteps,
                 resetPending>>
  /\ FixFrame

\* `await readManifest(customDir)` has its result.
ReadCustom(c) ==
  /\ task[c].pc = "readCustom"
  /\ LET t == [task[c] EXCEPT !.sawCustom = customFile.kind]
     IN IF customFile.kind = "malformed"
          THEN /\ SetTask(c, Fail(t, "ManifestUnreadable"))
               /\ UNCHANGED <<manifest, resolvedDirs>>
          ELSE FinishGetManifest(c, t, t.standard, ReadManifest(customFile))
  /\ UNCHANGED <<tempDir, disk, tmpDirs, mkdtemps, clock, returned, aliased, fixCalls,
                 envCustomDir, standardFile, customFile, envSteps,
                 resetPending>>
  /\ FixFrame

\* getFixture() after `await getManifest()`: the key test, then
\* path.join(resolvedDirs[key], m[key]) and the start of fs.access().
ResolveFixture(c) ==
  /\ task[c].pc = "gotManifest"
  /\ LET t == task[c]
         file == Lookup(t.m.map, t.key)
         dir == Lookup(resolvedDirs.map, t.key)
     IN IF ~Truthy(file)
          THEN SetTask(c, [Fail(t, "FixtureKeyNotFound") EXCEPT !.errKeys = DOMAIN t.m.map])
          ELSE IF ~resolvedDirs.set \/ dir.kind # "string" \/ file.kind # "string"
            THEN SetTask(c, Fail(t, "TypeError"))
            ELSE SetTask(c, [t EXCEPT !.fixturePath = SourcePath(dir.val, file.val),
                                      !.pc = "access"])
  /\ UNCHANGED <<manifest, resolvedDirs, tempDir, disk, tmpDirs, mkdtemps, clock,
                 returned, aliased, fixCalls, envCustomDir, standardFile, customFile, envSteps,
                 resetPending>>
  /\ FixFrame

\* Mutant of Access: the temp directory is made before the file test.
AccessAfterMkdtemp(c) ==
  /\ task[c].pc = "access"
  /\ mkdtemps' = IF tempDir = 0 THEN mkdtemps + 1 ELSE mkdtemps
  /\ tempDir' = IF tempDir = 0 THEN mkdtemps' ELSE tempDir
  /\ tmpDirs' = tmpDirs \cup {tempDir'}
  /\ LET t == task[c]
     IN IF t.fixturePath \notin DOMAIN disk
          THEN SetTask(c, [Fail(t, "FixtureFileMissing") EXCEPT !.errPath = t.fixturePath])
          ELSE SetTask(c, [t EXCEPT !.tmp = tempDir', !.pc = "gotTempDir"])
  /\ UNCHANGED <<manifest, resolvedDirs, disk, clock,
                 returned, aliased, fixCalls, envCustomDir, standardFile, customFile, envSteps,
                 resetPending>>
  /\ FixFrame

\* fs.access(fixturePath) has its result; on success getTempDir() runs to its
\* await (`if (!tempDir)`) or returns the directory it has.
Access(c) ==
  /\ task[c].pc = "access"
  /\ LET t == task[c]
     IN IF t.fixturePath \notin DOMAIN disk
          THEN SetTask(c, [Fail(t, "FixtureFileMissing") EXCEPT !.errPath = t.fixturePath])
          ELSE IF tempDir = 0
            THEN SetTask(c, [t EXCEPT !.pc = "mkdtemp"])
            ELSE SetTask(c, [t EXCEPT !.tmp = tempDir, !.pc = "gotTempDir"])
  /\ UNCHANGED <<manifest, resolvedDirs, tempDir, disk, tmpDirs, mkdtemps, clock,
                 returned, aliased, fixCalls, envCustomDir, standardFile, customFile, envSteps,
                 resetPending>>
  /\ FixFrame

\* `tempDir = await fs.mkdtemp(...)` then `return tempDir`: a new directory.
Mkdtemp(c) ==
  /\ task[c].pc = "mkdtemp"
  /\ mkdtemps' = mkdtemps + 1
  /\ tmpDirs' = tmpDirs \cup {mkdtemps'}
  /\ tempDir' = mkdtemps'
  /\ SetTask(c, [task[c] EXCEPT !.tmp = tempDir', !.pc = "gotTempDir"])
  /\ UNCHANGED <<manifest, resolvedDirs, disk, clock, returned, aliased, fixCalls,
                 envCustomDir, standardFile, customFile, envSteps,
                 resetPending>>
  /\ FixFrame

\* getFixture() after `await getTempDir()`: the name of the copy, made of the key,
\* Date.now() and the file name, and the start of fs.copyFile(). Date.now() is the
\* value it had last or a later one: time passes unseen between two readings.
NameCopy(c) ==
  /\ task[c].pc = "gotTempDir"
  /\ \E now \in clock..MaxClock :
       /\ clock' = now
       /\ LET t == task[c]
          IN SetTask(c, [t EXCEPT !.destPath = TempPath(t.tmp, t.key, now, t.m.map[t.key]),
                                  !.pc = "copyFile"])
  /\ UNCHANGED <<manifest, resolvedDirs, tempDir, disk, tmpDirs, mkdtemps,
                 returned, aliased, fixCalls, envCustomDir, standardFile, customFile, envSteps,
                 resetPending>>
  /\ FixFrame

\* Mutant of CopyFile: no copy is made, the path of the source file is returned.
CopyFileReturnsSource(c) ==
  /\ task[c].pc = "copyFile"
  /\ LET t == task[c]
     IN /\ SetTask(c, [t EXCEPT !.destPath = t.fixturePath, !.pc = "done"])
        /\ returned' = returned \cup {t.fixturePath}
        /\ aliased' = (aliased \/ t.fixturePath \in returned)
  /\ UNCHANGED <<manifest, resolvedDirs, tempDir, disk, tmpDirs, mkdtemps, clock,
                 fixCalls, envCustomDir, standardFile, customFile, envSteps,
                 resetPending>>
  /\ FixFrame

\* fs.copyFile(fixturePath, destPath) has its result; `return destPath`.
\* It fails when the temp directory or the source is gone by now.
CopyFile(c) ==
  /\ task[c].pc = "copyFile"
  /\ LET t == task[c]
     IN IF t.tmp \notin tmpDirs \/ t.fixturePath \notin DOMAIN disk
          THEN /\ SetTask(c, Fail(t, "CopyFailed"))
               /\ UNCHANGED <<disk, returned, aliased>>
          ELSE /\ disk' = WriteFile(disk, t.destPath, disk[t.fixturePath])
               /\ SetTask(c, [t EXCEPT !.pc = "done"])
               /\ returned' = returned \cup {t.destPath}
               /\ aliased' = (aliased \/ t.destPath \in returned)
  /\ UNCHANGED <<manifest, resolvedDirs, tempDir, tmpDirs, mkdtemps, clock,
                 fixCalls, envCustomDir, standardFile, customFile, envSteps,
                 resetPending>>
  /\ FixFrame

\* Mutant of ResetManifest: `manifest` is cleared, `resolvedDirs` is kept.
ResetManifestKeepsDirs ==
  /\ fixCalls < MaxFixCalls
  /\ fixCalls' = fixCalls + 1
  /\ manifest' = UnsetManifest
  /\ resetPending' = TRUE
  /\ UNCHANGED <<resolvedDirs, tempDir, disk, tmpDirs, mkdtemps, clock, task, last,
                 returned, aliased, envCustomDir, standardFile, customFile, envSteps>>
  /\ FixFrame

\* resetManifest()
ResetManifest ==
  /\ fixCalls < MaxFixCalls
  /\ fixCalls' = fixCalls + 1
  /\ manifest' = UnsetManifest
  /\ resolvedDirs' = UnsetDirs
  /\ resetPending' = TRUE
  /\ UNCHANGED <<tempDir, disk, tmpDirs, mkdtemps, clock, task, last, returned, aliased,
                 envCustomDir, standardFile, customFile, envSteps>>
  /\ FixFrame

\* Mutant of CleanupFixtures: without `if (tempDir)`, fs.rm(undefined) throws.
CleanupFixturesUnguarded(c) ==
  /\ task[c].pc = "idle"
  /\ fixCalls < MaxFixCalls
  /\ fixCalls' = fixCalls + 1
  /\ LET t == [IdleTask EXCEPT !.op = "cleanupFixtures"]
     IN IF tempDir # 0
          THEN SetTask(c, [t EXCEPT !.tmp = tempDir, !.pc = "rm"])
          ELSE SetTask(c, Fail(t, "TypeError"))
  /\ returned' = {}
  /\ aliased' = FALSE
  /\ UNCHANGED <<manifest, resolvedDirs, tempDir, disk, tmpDirs, mkdtemps, clock,
                 envCustomDir, standardFile, customFile, envSteps, resetPending>>
  /\ FixFrame

\* A call of cleanupFixtures(): `if (tempDir)` and the start of fs.rm(tempDir).
CleanupFixtures(c) ==
  /\ task[c].pc = "idle"
  /\ fixCalls < MaxFixCalls
  /\ fixCalls' = fixCalls + 1
  /\ LET t == [IdleTask EXCEPT !.op = "cleanupFixtures"]
     IN IF tempDir # 0
          THEN SetTask(c, [t EXCEPT !.tmp = tempDir, !.pc = "rm"])
          ELSE SetTask(c, [t EXCEPT !.pc = "done"])
  /\ returned' = {}
  /\ aliased' = FALSE
  /\ UNCHANGED <<manifest, resolvedDirs, tempDir, disk, tmpDirs, mkdtemps, clock,
                 envCustomDir, standardFile, customFile, envSteps,
                 resetPending>>
  /\ FixFrame

\* Mutant of RemoveTempDir: the directory is removed, `tempDir` keeps its path.
RemoveTempDirKeepsPath(c) ==
  /\ task[c].pc = "rm"
  /\ LET t == task[c]
     IN /\ tmpDirs' = tmpDirs \ {t.tmp}
        /\ disk' = RemovePaths(disk, {p \in DOMAIN disk : p.tmp = t.tmp})
        /\ SetTask(c, [t EXCEPT !.pc = "done"])
  /\ returned' = {}
  /\ aliased' = FALSE
  /\ UNCHANGED <<manifest, resolvedDirs, tempDir, mkdtemps, clock, fixCalls,
                 envCustomDir, standardFile, customFile, envSteps,
                 resetPending>>
  /\ FixFrame

\* fs.rm(dir, { recursive: true, force: true }) is done; `tempDir = undefined`.
RemoveTempDir(c) ==
  /\ task[c].pc = "rm"
  /\ LET t == task[c]
     IN /\ tmpDirs' = tmpDirs \ {t.tmp}
        /\ disk' = RemovePaths(disk, {p \in DOMAIN disk : p.tmp = t.tmp})
        /\ SetTask(c, [t EXCEPT !.pc = "done"])
  /\ tempDir' = 0
  /\ returned' = {}
  /\ aliased' = FALSE
  /\ UNCHANGED <<manifest, resolvedDirs, mkdtemps, clock, fixCalls,
                 envCustomDir, standardFile, customFile, envSteps,
                 resetPending>>
  /\ FixFrame

\* The test code uses up a path getFixture() returned (an import deletes the
\* archive it was given).
ConsumeFixture ==
  /\ envSteps < MaxEnvSteps
  /\ envSteps' = envSteps + 1
  /\ \E p \in returned :
       /\ p \in DOMAIN disk
       /\ disk' = RemovePaths(disk, {p})
  /\ UNCHANGED <<manifest, resolvedDirs, tempDir, tmpDirs, mkdtemps, clock, task, last,
                 returned, aliased, fixCalls, envCustomDir, standardFile, customFile,
                 resetPending>>
  /\ FixFrame

\* The test code switches fixture sets: CUSTOM_DIR and the manifest files change.
SwitchFixtures ==
  /\ envSteps < MaxEnvSteps
  /\ envSteps' = envSteps + 1
  /\ \E s \in FixtureSetups :
       /\ s # Setup(envCustomDir, standardFile, customFile)
       /\ envCustomDir' = s.env
       /\ standardFile' = s.standard
       /\ customFile' = s.custom
  /\ UNCHANGED <<manifest, resolvedDirs, tempDir, disk, tmpDirs, mkdtemps, clock,
                 task, last, returned, aliased, fixCalls,
                 resetPending>>
  /\ FixFrame

FixNext ==
  \/ \E c \in FixCallers : GetManifest(c)
  \/ \E c \in FixCallers, key \in FixtureKeys : GetFixture(c, key)
  \/ \E c \in FixCallers : ReadStandard(c)
  \/ \E c \in FixCallers : ReadCustom(c)
  \/ \E c \in FixCallers : ResolveFixture(c)
  \/ \E c \in FixCallers : Access(c)
  \/ \E c \in FixCallers : Mkdtemp(c)
  \/ \E c \in FixCallers : NameCopy(c)
  \/ \E c \in FixCallers : CopyFile(c)
  \/ \E c \in FixCallers : CleanupFixtures(c)
  \/ \E c \in FixCallers : RemoveTempDir(c)
  \/ ResetManifest
  \/ ConsumeFixture
  \/ SwitchFixtures

(***************************************************************************)
(* lib/fixtures.js: which directories getManifest() reads, as a function   *)
(* of the environment variables. A directory is the sequence of its path   *)
(* segments; an environment variable is unset, or a string (maybe empty).  *)
(***************************************************************************)
EnvUnset == [set |-> FALSE, path |-> <<>>]
EnvString(p) == [set |-> TRUE, path |-> p]
EnvValues == {EnvUnset, EnvString(<<>>), EnvString(<<"client">>), EnvString(<<"other">>)}
\* undefined and '' are falsy, every other string is truthy.
NonEmpty(v) == v.set /\ v.path # <<>>

\* const FIXTURES_DIR: the fixtures directory of the package.
FIXTURES_DIR == EnvString(<<FixturesDir>>)

\* getCustomFixturesDir():
\* process.env.CUSTOM_DIR && path.join(process.env.CUSTOM_DIR, 'fixtures')
GetCustomFixturesDirOf(env) ==
  IF NonEmpty(env.CUSTOM_DIR)
    THEN EnvString(Append(env.CUSTOM_DIR.path, "fixtures"))
    ELSE env.CUSTOM_DIR

DirInit ==
  /\ procEnv \in [FIXTURES_DIR : EnvValues, CUSTOM_FIXTURES_DIR : EnvValues,
                   CUSTOM_DIR : EnvValues]
  /\ dirPc = "start"
  /\ dirCustomDir = EnvUnset
  /\ dirReads = <<>>

\* getManifest() with nothing cached, up to its first await:
\* `const customDir = getCustomFixturesDir()` and readManifest(FIXTURES_DIR).
DirGetManifest ==
  /\ dirPc = "start"
  /\ dirCustomDir' = GetCustomFixturesDirOf(procEnv)
  /\ dirReads' = Append(dirReads, FIXTURES_DIR.path)
  /\ dirPc' = "readStandard"
  /\ UNCHANGED procEnv
  /\ DirFrame

\* `const custom = customDir ? await readManifest(customDir) : null`
DirReadCustom ==
  /\ dirPc = "readStandard"
  /\ IF NonEmpty(dirCustomDir)
       THEN dirReads' = Append(dirReads, dirCustomDir.path) /\ dirPc' = "readCustom"
       ELSE UNCHANGED dirReads /\ dirPc' = "merge"
  /\ UNCHANGED <<procEnv, dirCustomDir>>
  /\ DirFrame

\* The second read has its result: on to the merge.
DirCustomRead ==
  /\ dirPc = "readCustom"
  /\ dirPc' = "merge"
  /\ UNCHANGED <<procEnv, dirCustomDir, dirReads>>
  /\ DirFrame

DirNext ==
  \/ DirGetManifest
  \/ DirReadCustom
  \/ DirCustomRead

(***************************************************************************)
(* Specifications. Each part is checked with the other parts at rest.      *)
(***************************************************************************)
vars == <<varsApp, varsRun, varsFix, varsDb, varsMod, varsDir>>

AppAtRest ==
  /\ app = Undefined /\ nodeEnv = Undefined /\ onReadyCalls = 0
  /\ appPc = [c \in Callers |-> "idle"]
  /\ appRet = [c \in Callers |-> Undefined]
  /\ appHit = [c \in Callers |-> FALSE]

RunAtRest ==
  /\ runPc = "collect" /\ args = <<>> /\ argIdx = 1 /\ testsDirFiles = {}
  /\ customDir = "unset" /\ customFiles = {} /\ testFiles = <<>>
  /\ dropCalls = 0 /\ dbDropped = FALSE /\ dropResult = "none" /\ entryFile = <<>>
  /\ entryWrites = 0 /\ launches = <<>> /\ testStatus = "none" /\ exitCode = -1
  /\ unlinkResult = "none"

FixAtRest ==
  /\ manifest = UnsetManifest /\ resolvedDirs = UnsetDirs /\ tempDir = 0
  /\ envCustomDir = FALSE /\ standardFile = AbsentFile /\ customFile = AbsentFile
  /\ disk = FilesOf({}) /\ tmpDirs = {} /\ mkdtemps = 0 /\ clock = 0
  /\ task = [c \in FixCallers |-> IdleTask] /\ last = IdleTask /\ aliased = FALSE
  /\ fixCalls = 0 /\ envSteps = 0
  /\ returned = {} /\ resetPending = FALSE

DbAtRest ==
  /\ dbPc = "idle" /\ dbCwd = "none" /\ dbConfigFile = "absent" /\ dbResult = "none"
  /\ dbFault = "none" /\ dbConnOpen = 0 /\ dbHasData = FALSE /\ dbEffect = FALSE
  /\ dbCallCount = 0

ModAtRest ==
  /\ modOp = "none" /\ modPc = "idle" /\ modName = "" /\ modArg = Undefined
  /\ modColls = <<>> /\ modIdx = 0 /\ modHandle = Undefined /\ modWaits = <<>>
  /\ modAttempts = <<>> /\ modError = "none" /\ modCalls = 0 /\ collDocs = {}

DirAtRest ==
  /\ procEnv = [FIXTURES_DIR |-> EnvUnset, CUSTOM_FIXTURES_DIR |-> EnvUnset,
                CUSTOM_DIR |-> EnvUnset]
  /\ dirPc = "start" /\ dirCustomDir = EnvUnset /\ dirReads = <<>>

AppSpecInit == AppInit /\ RunAtRest /\ FixAtRest /\ DbAtRest /\ ModAtRest /\ DirAtRest
RunSpecInit == RunInit /\ AppAtRest /\ FixAtRest /\ DbAtRest /\ ModAtRest /\ DirAtRest
FixtureSpecInit == FixInit /\ AppAtRest /\ RunAtRest /\ DbAtRest /\ ModAtRest /\ DirAtRest
DbSpecInit == DbInit /\ AppAtRest /\ RunAtRest /\ FixAtRest /\ ModAtRest /\ DirAtRest
DirSpecInit == DirInit /\ AppAtRest /\ RunAtRest /\ FixAtRest /\ DbAtRest /\ ModAtRest
\* getModule() and cleanDb() start where getApp() starts: `app` unset.
ModSpecInit == ModInit /\ AppInit /\ RunAtRest /\ FixAtRest /\ DbAtRest /\ DirAtRest

AppSpec == AppSpecInit /\ [][AppNext]_vars
RunSpec == RunSpecInit /\ [][RunNext]_vars
FixtureSpec == FixtureSpecInit /\ [][FixNext]_vars
DbSpec == DbSpecInit /\ [][DbNext]_vars
ModSpec == ModSpecInit /\ [][ModNext]_vars
DirSpec == DirSpecInit /\ [][DirNext]_vars

(***************************************************************************)
(* Claims                                                                  *)
(***************************************************************************)

\* C1: of the getApp() calls issued before the first boot has completed, at most
\* one invokes App.instance.onReady() (no two boots are ever awaited at the same
\* time), and all of them resolve to the same handle.
C1_OneBootForConcurrentCalls ==
  /\ Cardinality({c \in Callers : appPc[c] = "awaitReady"}) <= 1
  /\ \A c, d \in Callers :
       (appPc[c] = "done" /\ appPc[d] = "done") => appRet[c] = appRet[d]

\* C2: once `app` is set it is never replaced or cleared, onReady() is not invoked
\* again, and every getApp() call that starts from then on returns the cached
\* handle at once.
C2_CachedHandleKept ==
  [][app # Undefined =>
       /\ app' = app
       /\ onReadyCalls' = onReadyCalls
       /\ \A c \in Callers :
            (appPc[c] = "idle" /\ appPc'[c] # "idle") =>
              (appPc'[c] = "done" /\ appRet'[c] = app)]_vars

\* C2 witness: a call that started after the boot had succeeded has returned the
\* cached handle, after a single invocation of onReady().
C2_Witness ==
  \E c \in Callers :
    appPc[c] = "done" /\ appHit[c] /\ appRet[c] = AppInstance /\ onReadyCalls = 1

\* The keys two manifests share.
SharedKeys(m) == DOMAIN m.standard.map \cap DOMAIN m.custom.map

IsDisjointUnion(m, dirs) ==
  /\ DOMAIN m.map = DOMAIN m.standard.map \cup DOMAIN m.custom.map
  /\ DOMAIN dirs = DOMAIN m.map
  /\ \A k \in DOMAIN m.standard.map : m.map[k] = m.standard.map[k] /\ dirs[k] = FixturesDir
  /\ \A k \in DOMAIN m.custom.map : m.map[k] = m.custom.map[k] /\ dirs[k] = CustomFixturesDir

\* C4: built from two manifests with disjoint keys, the merged manifest has exactly
\* the keys of both, each with the file name of its own manifest, and each key's
\* recorded directory is the directory of the manifest it came from.
C4_DisjointUnion ==
  /\ (manifest.set /\ SharedKeys(manifest) = {}) =>
       IsDisjointUnion(manifest, resolvedDirs.map)
  /\ (last.op = "getManifest" /\ last.pc = "done" /\ SharedKeys(last.m) = {}) =>
       /\ DOMAIN last.m.map = DOMAIN last.m.standard.map \cup DOMAIN last.m.custom.map
       /\ \A k \in DOMAIN last.m.standard.map : last.m.map[k] = last.m.standard.map[k]
       /\ \A k \in DOMAIN last.m.custom.map : last.m.map[k] = last.m.custom.map[k]

\* C4 witness: getManifest() has returned the merge of two non-empty manifests
\* with disjoint keys.
C4_Witness ==
  /\ last.op = "getManifest" /\ last.pc = "done" /\ last.m = manifest
  /\ DOMAIN manifest.standard.map # {} /\ DOMAIN manifest.custom.map # {}
  /\ SharedKeys(manifest) = {}

\* C5: with no cleanupFixtures() in between, no two successful getFixture() calls
\* return the same path.
C5_DistinctPaths == ~aliased

\* C6: no step changes, removes or adds a file of a source directory, whatever the
\* calls and the consumer of the copies do, and every path getFixture() returns
\* lies in a temp directory.
C6_SourcesUntouched ==
  [][/\ \A p \in DOMAIN disk : IsSourcePath(p) => (p \in DOMAIN disk' /\ disk'[p] = disk[p])
     /\ \A p \in DOMAIN disk' : IsSourcePath(p) => p \in DOMAIN disk
     /\ \A p \in returned' : IsTempPath(p) /\ ~IsSourcePath(p)]_vars

\* C6 witness: getFixture() returned a copy and the consumer has deleted it, its
\* temp directory still being there.
C6_Witness ==
  /\ last.op = "getFixture" /\ last.pc = "done"
  /\ last.destPath \in returned /\ last.destPath \notin DOMAIN disk
  /\ last.destPath.tmp \in tmpDirs

\* C7: getFixture(key) with a key that is not an entry of the merged manifest fails
\* with the key-not-found error, which lists exactly the keys of the merged manifest.
C7_AbsentKeyNotFound ==
  (last.op = "getFixture" /\ last.m.set /\ last.key \notin DOMAIN last.m.map) =>
    (last.pc = "failed" /\ last.error = "FixtureKeyNotFound"
       /\ last.errKeys = DOMAIN last.m.map)

\* A getManifest() call that has ended after reading the disk.
EndedUncachedGetManifest == last.op = "getManifest" /\ last.sawStandard # "unread"
NoManifestSeen == last.sawStandard = "absent" /\ last.sawCustom \in {"absent", "unread"}

MissingSuiteNamed == \E i \in 1..Len(args) : (args[i] \o SpecExt) \notin testsDirFiles

\* C9: when a named suite is missing the run ends with a nonzero status and has
\* neither called dropTestDb(), nor written the entry file, nor launched the tests.
C9_MissingSuiteAborts ==
  MissingSuiteNamed =>
    /\ runPc \in {"collect", "exited"}
    /\ runPc = "exited" => exitCode > 0
    /\ dropCalls = 0 /\ ~dbDropped
    /\ entryWrites = 0 /\ entryFile = <<>>
    /\ launches = <<>>

\* C9 witness: the run has ended on a missing name that came after a valid one.
C9_Witness ==
  /\ MissingSuiteNamed /\ runPc = "exited" /\ exitCode = 1
  /\ Len(testFiles) >= 1 /\ dropCalls = 0

\* a comes before b in the order of UTF-16 code units.
StrictlyBefore(a, b) ==
  \E k \in 1..(Len(a) + 1) :
    /\ \A i \in 1..(k - 1) : i <= Len(b) /\ a[i] = b[i]
    /\ \/ k = Len(a) + 1 /\ Len(b) >= k
       \/ k <= Len(a) /\ k <= Len(b) /\ a[k] < b[k]
HasSpecSuffix(n) == \E k \in 0..Len(n) : n = SubSeq(n, 1, k) \o SpecExt

\* C10: without arguments, once the selection is made, it holds exactly the
\* .spec.js files of <ROOT>/tests and of <CUSTOM_DIR>/tests, each once, the former
\* before the latter, each group in ascending code-unit order.
C10_DefaultSelection ==
  (Len(args) = 0 /\ runPc \in {"drop", "write", "exec", "finally", "exited"}) =>
    LET primary == {n \in testsDirFiles : HasSpecSuffix(n)}
        custom == IF customDir = "tests" THEN {n \in customFiles : HasSpecSuffix(n)} ELSE {}
    IN /\ {testFiles[i] : i \in 1..Len(testFiles)} =
            {[dir |-> "tests", name |-> n] : n \in primary}
              \cup {[dir |-> "custom", name |-> n] : n \in custom}
       /\ Len(testFiles) = Cardinality(primary) + Cardinality(custom)
       /\ \A i, j \in 1..Len(testFiles) :
            i < j =>
              \/ testFiles[i].dir = "tests" /\ testFiles[j].dir = "custom"
              \/ /\ testFiles[i].dir = testFiles[j].dir
                 /\ StrictlyBefore(testFiles[i].name, testFiles[j].name)

\* C10 witness: a default run has ended with at least four selected files, both
\* directories holding a file that is no spec.
C10_Witness ==
  /\ Len(args) = 0 /\ runPc = "exited" /\ Len(testFiles) >= 4
  /\ testFiles[Len(testFiles)].dir = "custom"
  /\ (StemA \o JsExt) \in testsDirFiles /\ (StemX \o JsExt) \in customFiles

\* C11: dropTestDb(cwd) never rejects; when the config file is missing, when there
\* is no connection URI, or when any step raises, it resolves to false.
C11_DropNeverThrows ==
  /\ dbResult # "rejected"
  /\ dbPc = "done" => dbResult \in {"true", "false"}
  /\ (dbPc = "done" /\ dbFault # "none") => dbResult = "false"

\* C11 witness: close() raised after the connection was made and the database
\* dropped, and the call resolved to false.
C11_Witness == dbPc = "done" /\ dbFault = "close" /\ dbResult = "false"

\* C12 as claimed: a run that wrote the entry file ends with the file removed.
C12_AsClaimed == (runPc = "exited" /\ entryWrites > 0) => entryFile = <<>>

\* C12 amended: a run that wrote the entry file ends after one attempt to remove
\* it, whatever the test process did; the file is gone exactly when that attempt
\* succeeded, and a failed attempt leaves the file behind.
C12_Amended ==
  (runPc = "exited" /\ entryWrites > 0) =>
    /\ unlinkResult \in {"removed", "failed"}
    /\ (unlinkResult = "removed") <=> (entryFile = <<>>)

\* C12 witness: the test process could not be launched and the file was removed.
C12_Witness ==
  /\ runPc = "exited" /\ entryWrites = 1 /\ testStatus = "spawnfail"
  /\ unlinkResult = "removed" /\ entryFile = <<>>

\* C13: the run ends with status zero exactly when the test process exited with
\* status zero, also when the entry file could not be removed.
C13_ExitStatus == runPc = "exited" => ((exitCode = 0) <=> (testStatus = "zero"))

\* C13 witness: the test process exited nonzero, the removal of the entry file
\* failed, and the run ended nonzero.
C13_Witness ==
  /\ runPc = "exited" /\ testStatus = "nonzero" /\ unlinkResult = "failed" /\ exitCode = 1

\* The names the loop of cleanDb() went through, in order.
AttemptedNames == [i \in 1..Len(modAttempts) |-> modAttempts[i].name]

\* C14: cleanDb(collections) goes through every name in the given order whatever
\* the outcome of each, fails only when getModule() failed (before the loop), and
\* every collection it cleared holds no document when it returns.
C14_CleanDbTolerant ==
  modOp = "cleanDb" =>
    /\ modPc = "failed" => (modAttempts = <<>> /\ modError \in {"boot", "module"})
    /\ modPc = "deleteMany" => AttemptedNames = SubSeq(modColls, 1, modIdx - 1)
    /\ modPc = "done" =>
         /\ AttemptedNames = modColls
         /\ modError = "none"
         /\ \A i \in 1..Len(modAttempts) :
              modAttempts[i].outcome = "cleared" => modAttempts[i].name \notin collDocs

\* C14 witness: cleanDb(['tags', 'nosuch', 'tags']) returned after getCollection
\* threw for the second name and the third was cleared.
C14_Witness ==
  /\ modOp = "cleanDb" /\ modPc = "done" /\ Len(modAttempts) = 3
  /\ modAttempts[2] = [name |-> "nosuch", outcome |-> "getCollectionThrew"]
  /\ modAttempts[3] = [name |-> "tags", outcome |-> "cleared"]

\* Some argument of the command line is the subset flag.
SubsetFlagGiven == \E i \in 1..Len(args) : args[i] = FlagImportOnly

\* C15: with the subset flag given the primary selection is the one spec file bound
\* to the subset; the flag is not looked up as a suite, so the run does not end on
\* it as on a missing suite.
C15_SubsetFlagSelects ==
  (SubsetFlagGiven /\ runPc # "collect") =>
    /\ \E i \in 1..Len(testFiles) : testFiles[i] = [dir |-> "tests", name |-> ImportSpecName]
    /\ \A i \in 1..Len(testFiles) :
         testFiles[i].dir = "tests" => testFiles[i].name = ImportSpecName

\* C18: cleanDb() without argument goes through content, assets, courseassets,
\* tags, adaptbuilds and contentplugins, and nothing else.
C18_DefaultCollections ==
  (modOp = "cleanDb" /\ modArg = Undefined /\ modPc = "done") =>
    AttemptedNames = <<"content", "assets", "courseassets", "tags", "adaptbuilds",
                       "contentplugins">>

\* C18 witness: cleanDb() has returned after clearing contentplugins.
C18_Witness ==
  /\ modOp = "cleanDb" /\ modArg = Undefined /\ modPc = "done"
  /\ \E i \in 1..Len(modAttempts) :
       modAttempts[i] = [name |-> "contentplugins", outcome |-> "cleared"]

\* C19 as claimed: no selection step comes before the database drop has been
\* attempted, and the tests are launched after both.
C19_AsClaimed ==
  /\ (runPc \in {"custom", "drop"} \/ testFiles # <<>>) => dropCalls >= 1
  /\ launches # <<>> => dropCalls >= 1

\* C19 amended: the selection is resolved first, the database drop is attempted
\* once the selection is complete, and the tests are launched last, on that
\* selection.
C19_Amended ==
  /\ runPc \in {"collect", "custom", "drop"} => (dropCalls = 0 /\ launches = <<>>)
  /\ dropCalls >= 1 => runPc \in {"write", "exec", "finally", "exited"}
  /\ launches # <<>> => (dropCalls = 1 /\ launches = <<testFiles>>)

\* C19 witness: a run has ended after selecting two files or more, one drop and
\* one launch.
C19_Witness ==
  /\ runPc = "exited" /\ Len(testFiles) >= 2 /\ dropCalls = 1 /\ launches = <<testFiles>>

\* C20: the tests are launched only once the one dropTestDb() call has resolved;
\* the run goes on to the launch whatever it resolved to; the drop is attempted
\* at most once, and never after the launch.
C20_DropThenLaunch ==
  [][/\ launches' # launches =>
          (runPc = "exec" /\ dropCalls = 1 /\ dropResult \in {"true", "false"})
     /\ dropCalls' <= 1
     /\ runPc = "drop" => (runPc' = "write" /\ dropCalls' = 1)
     /\ launches # <<>> => (dropCalls' = dropCalls /\ dbDropped' = dbDropped)]_vars

\* C20 witness: the tests were launched after dropTestDb() resolved to false.
C20_Witness == launches # <<>> /\ dropCalls = 1 /\ dropResult = "false" /\ ~dbDropped

\* C16: a cleanupFixtures() call made while there is no temp directory ends at
\* once without error and leaves the files and the directories as they are; one
\* made while there is a temp directory removes it with every copy in it and
\* leaves `tempDir` unset, so that the call after it is of the first kind.
C16_CleanupIdempotent ==
  [][/\ (fixCalls' = fixCalls + 1 /\ tempDir = 0 /\ task' = task
           /\ last'.op = "cleanupFixtures") =>
          /\ last'.pc = "done" /\ last'.error = "none"
          /\ disk' = disk /\ tmpDirs' = tmpDirs /\ tempDir' = 0
     /\ \A c \in FixCallers :
          (task[c].pc = "idle" /\ task'[c].op = "cleanupFixtures") =>
            (tempDir # 0 /\ task'[c].pc = "rm" /\ task'[c].tmp = tempDir)
     /\ \A c \in FixCallers :
          (task[c].pc = "rm" /\ task'[c].pc # "rm") =>
            /\ last'.op = "cleanupFixtures" /\ last'.pc = "done"
            /\ task[c].tmp \notin tmpDirs'
            /\ \A p \in DOMAIN disk' : p.tmp # task[c].tmp
            /\ tempDir' = 0]_vars

\* C16 witness: a temp directory was made and removed, and the cleanupFixtures()
\* call that ended last found nothing to remove.
C16_Witness ==
  /\ last.op = "cleanupFixtures" /\ last.pc = "done" /\ last.tmp = 0
  /\ mkdtemps >= 1 /\ tmpDirs = {} /\ tempDir = 0
  /\ \A p \in DOMAIN disk : ~IsTempPath(p)

\* The manifest files and the configuration as they are now.
StandardNow == ReadManifest(standardFile)
CustomNow == IF envCustomDir THEN ReadManifest(customFile) ELSE NullManifest

\* C17: the first getManifest()/getFixture() call after a resetManifest() reads the
\* manifests from disk under the configuration of that moment (or, at the least,
\* what it takes from the cache is the merge of the files as they are at that
\* moment); a getManifest() call ends with the merge of what it read; and while a
\* manifest is cached a getManifest() call returns it at once and reads nothing.
C17_ResetRereads ==
  [][/\ (resetPending /\ ~resetPending') =>
          \/ \E c \in FixCallers :
               /\ task[c].pc = "idle" /\ task'[c].pc = "readStandard"
               /\ task'[c].customDir = GetCustomFixturesDir
          \/ /\ manifest.standard = StandardNow /\ manifest.custom = CustomNow
             /\ manifest.map = MergedManifest(StandardNow, CustomNow)
     /\ \A c \in FixCallers :
          (task[c].op = "getManifest" /\ task[c].pc \in {"readStandard", "readCustom"}
             /\ task'[c].pc = "idle" /\ last'.pc = "done") =>
            /\ last'.m = manifest'
            /\ last'.m.map = MergedManifest(last'.m.standard, last'.m.custom)
            /\ last'.m.standard = (IF task[c].pc = "readStandard"
                                     THEN ReadManifest(standardFile) ELSE task[c].standard)
            /\ last'.m.custom = (IF task[c].pc = "readCustom"
                                   THEN ReadManifest(customFile) ELSE NullManifest)
     /\ (manifest.set /\ manifest' = manifest /\ fixCalls' = fixCalls + 1) =>
          /\ \A c \in FixCallers : task[c].pc = "idle" => task'[c].pc # "readStandard"
          /\ (task' = task /\ last'.op = "getManifest") =>
               (last'.pc = "done" /\ last'.m = manifest /\ last'.sawStandard = "unread")]_vars

\* The step in which caller c's getManifest() assigns `manifest` and `resolvedDirs`
\* after its last read (a build of the merged manifest from what was read on disk).
BuildsManifest(c) ==
  /\ task[c].pc \in {"readStandard", "readCustom"}
  /\ \/ task'[c].pc = "gotManifest"
     \/ task'[c].pc = "idle" /\ last'.pc = "done"

\* C21: between two resetManifest() calls the merged manifest is built at most
\* once, also under concurrent calls: resetManifest() is the only step that unsets
\* `manifest`, so no build happens while a manifest built since the last reset is
\* still cached.
C21_BuiltOncePerCycle ==
  [][\A c \in FixCallers : BuildsManifest(c) => ~manifest.set]_vars

\* C22: as long as no cleanupFixtures() call has removed or is removing a
\* workspace, at most one temp workspace has been created by fs.mkdtemp() and
\* every path getFixture() has returned lies in it (the directory `tempDir` names,
\* the one a later cleanupFixtures() removes).
C22_OneWorkspace ==
  (/\ tmpDirs = 1..mkdtemps
   /\ \A c \in FixCallers : task[c].op # "cleanupFixtures") =>
    /\ mkdtemps <= 1
    /\ \A p \in returned : p.tmp = tempDir

\* C23: a run that gets past the selection writes one entry file, whose import
\* lines are the selected spec files in selection order, and starts the test
\* runner once, on that entry file; nothing else is ever launched. (A test process
\* exists unless the operating system could not spawn it.)
C23_OneLaunchOfEntryFile ==
  /\ entryWrites <= 1 /\ Len(launches) <= 1
  /\ runPc \in {"exec", "finally"} => (entryWrites = 1 /\ entryFile = <<testFiles>>)
  /\ launches # <<>> => launches = <<testFiles>>
  /\ (runPc \in {"finally", "exited"} /\ entryWrites = 1 /\ testStatus # "spawnfail") =>
       Len(launches) = 1

\* C23 witness: a run over three spec files, given in an order that is not the
\* sorted one, has ended after one launch of the one entry file.
C23_Witness ==
  /\ runPc = "exited" /\ entryWrites = 1 /\ testStatus = "nonzero"
  /\ Len(testFiles) = 3 /\ testFiles[1].name = StemB \o SpecExt
  /\ launches = <<testFiles>>

\* A suite name of the command line (not the subset flag) has no spec file.
MissingSuiteNameGiven ==
  \E i \in 1..Len(args) :
    args[i] # FlagImportOnly /\ (args[i] \o SpecExt) \notin testsDirFiles

\* The spec files of <CUSTOM_DIR>/tests, sorted, when CUSTOM_DIR is set and has a
\* tests directory; nothing otherwise.
OverrideSelection ==
  IF customDir = "tests" THEN JoinAll("custom", SortedSpecFiles(customFiles)) ELSE <<>>

\* C24: in every selection mode (scan, explicit suite names, subset flag) the
\* run's selection is a primary selection of files of <ROOT>/tests followed by the
\* override directory's spec files; it is the primary selection alone when
\* CUSTOM_DIR is unset or has no tests directory.
C24_OverrideAppended ==
  (~MissingSuiteNameGiven /\ runPc \notin {"collect", "custom"}) =>
    \E n \in 0..Len(testFiles) :
      /\ \A i \in 1..n : testFiles[i].dir = "tests"
      /\ SubSeq(testFiles, n + 1, Len(testFiles)) = OverrideSelection
      /\ Len(testFiles) = n + Len(OverrideSelection)

\* The path was seen to exist in this run: fs.existsSync() answered true for it, or
\* a fs.readdirSync() listing of its directory held its name.
SeenToExist(f) ==
  \/ f.dir = "tests" /\ f.name \in testsDirFiles
  \/ f.dir = "custom" /\ customDir = "tests" /\ f.name \in customFiles

\* C25: every path of the selection, at every moment up to and including the
\* launch of the tests, is one an existence test or a directory listing of this
\* run has shown to exist; what is launched imports such paths only.
C25_SelectionSeenToExist ==
  /\ \A i \in 1..Len(testFiles) : SeenToExist(testFiles[i])
  /\ \A l \in 1..Len(launches) : \A i \in 1..Len(launches[l]) : SeenToExist(launches[l][i])

\* C25 witness: the tests were launched on two suites named on the command line
\* and a spec file listed in <CUSTOM_DIR>/tests.
C25_Witness ==
  /\ launches # <<>> /\ Len(args) = 2 /\ Len(launches[1]) = 3
  /\ launches[1][2].dir = "tests" /\ launches[1][3].dir = "custom"

\* C26: a getFixture(key) call that got its manifest ends on the key test with
\* key-not-found when the key is not in that manifest, whatever the key; when the
\* key is in the manifest it gets as far as the file test, and the file-missing
\* error it may end with names the path resolved for the key (the directory the
\* key was taken from and the manifest's file name).
C26_MissingFileReported ==
  (last.op = "getFixture" /\ last.m.set /\ last.pc \in {"done", "failed"}) =>
    /\ last.key \notin DOMAIN last.m.map => last.error = "FixtureKeyNotFound"
    /\ last.key \in DOMAIN last.m.map =>
         last.error \in {"none", "FixtureFileMissing", "CopyFailed"}
    /\ last.error = "FixtureFileMissing" =>
         /\ last.key \in DOMAIN last.m.map
         /\ last.errPath = last.fixturePath
         /\ last.errPath.file = last.m.map[last.key]
         /\ IsSourcePath(last.errPath)
         /\ last.errPath \notin DOMAIN disk

\* C27: getModule(name) calls waitForModule(name) only in a step in which getApp()
\* has returned the handle, and on that handle; when getApp() rejects, the call
\* fails with the boot failure without any waitForModule() call; when
\* waitForModule() rejects, the call fails with that rejection.
C27_WaitAfterBoot ==
  [][/\ modWaits' # modWaits =>
          /\ app' # Undefined
          /\ modHandle' = app'
          /\ modWaits' = Append(modWaits, <<app', modName'>>)
          /\ modPc' = "waitForModule"
          /\ modPc \in {"idle", "awaitReady"}
          /\ modPc = "idle" => app # Undefined
     /\ (modPc = "awaitReady" /\ modPc' = "failed") =>
          (modWaits' = modWaits /\ modError' = "boot" /\ app' = Undefined)
     /\ (modPc = "waitForModule" /\ modPc' = "failed") => modError' = "module"
     /\ (modPc = "awaitReady" /\ modPc' # "awaitReady") =>
          modPc' \in {"waitForModule", "failed"}]_vars

\* C27 witness: a getModule() call failed on the boot without any readiness wait,
\* and the next one waited on the handle of its own boot and failed on the wait.
C27_Witness ==
  /\ modOp = "getModule" /\ modCalls = 2 /\ onReadyCalls = 2
  /\ modPc = "failed" /\ modError = "module"
  /\ modWaits = <<(<<AppInstance, "adaptframework">>)>>

\* The directories the claim has getManifest() read: the primary one, then the
\* override one if there is any.
ClaimedPrimaryDir ==
  IF NonEmpty(procEnv.FIXTURES_DIR) THEN procEnv.FIXTURES_DIR.path ELSE FIXTURES_DIR.path
ClaimedOverrideDirs ==
  IF NonEmpty(procEnv.CUSTOM_FIXTURES_DIR) THEN <<procEnv.CUSTOM_FIXTURES_DIR.path>>
  ELSE IF NonEmpty(procEnv.CUSTOM_DIR) THEN <<Append(procEnv.CUSTOM_DIR.path, "fixtures")>>
  ELSE <<>>

\* C28: getManifest() reads the primary manifest in the directory FIXTURES_DIR
\* names when that variable is set, else in the built-in directory; and the
\* override manifest in the directory CUSTOM_FIXTURES_DIR names when that is set,
\* else in <CUSTOM_DIR>/fixtures when CUSTOM_DIR is set, else nowhere.
C28_DirectoryOverrides ==
  dirPc = "merge" => dirReads = <<ClaimedPrimaryDir>> \o ClaimedOverrideDirs

\* C29: the step in which a getApp() call fails on its boot leaves `app` as it was
\* and gives the caller no handle; a getApp() call that starts while `app` is
\* unset invokes App.instance.onReady() anew; and whatever a getApp() call
\* returns is the handle of a boot that succeeded.
C29_FailedBootNotCached ==
  [][\A c \in Callers :
       /\ (appPc[c] = "awaitReady" /\ appPc'[c] = "failed") =>
            (app' = app /\ appRet'[c] = Undefined)
       /\ (appPc[c] = "idle" /\ appPc'[c] # "idle" /\ app = Undefined) =>
            (appPc'[c] = "awaitReady" /\ onReadyCalls' = onReadyCalls + 1)
       /\ (appPc[c] # "done" /\ appPc'[c] = "done") =>
            (appRet'[c] = AppInstance /\ app' = AppInstance
               /\ (appPc[c] = "awaitReady" \/ app = AppInstance))]_vars

\* C29 witness: the only call in flight is awaiting the second onReady(), the
\* first boot having failed and left `app` unset.
C29_Witness ==
  /\ appPc[1] = "awaitReady" /\ \A c \in Callers \ {1} : appPc[c] = "idle"
  /\ onReadyCalls = 2 /\ app = Undefined

\* C30: `manifest` and `resolvedDirs` are both unset or both set, and when set
\* they have the same keys; the directory kept for a key is the built-in or the
\* custom fixtures directory.
C30_ManifestAndDirsTogether ==
  /\ manifest.set = resolvedDirs.set
  /\ DOMAIN manifest.map = DOMAIN resolvedDirs.map
  /\ ~manifest.set => manifest.map = EmptyMap
  /\ \A k \in DOMAIN resolvedDirs.map :
       resolvedDirs.map[k] \in {FixturesDir, CustomFixturesDir}

\* C30 witness: the third call has ended with a built manifest of two keys, one
\* from each directory, and the directory map is set beside it.
C30_Witness ==
  /\ manifest.set /\ resolvedDirs.set /\ fixCalls = 3
  /\ DOMAIN manifest.map = {"course-export", "client-course"}
  /\ resolvedDirs.map["course-export"] = FixturesDir
  /\ resolvedDirs.map["client-course"] = CustomFixturesDir
  /\ last.m.set /\ ~resetPending

\* The directory the build behind manifest m recorded for key k: the custom
\* fixtures directory when the custom manifest of that build has the key.
DirOfBuild(m, k) == IF k \in DOMAIN m.custom.map THEN CustomFixturesDir ELSE FixturesDir

\* The call t has resolved its source path from the build it looked its key up in.
ResolvedFromOwnBuild(t) ==
  (t.op = "getFixture" /\ t.fixturePath # NoPath) =>
    /\ t.fixturePath.file = t.m.map[t.key]
    /\ t.fixturePath.dir = DirOfBuild(t.m, t.key)

\* C31: whatever resetManifest() and other calls do while a getFixture(key) call
\* is in flight, the source path of the call joins the file name and the directory
\* of one and the same manifest build, and a call whose key is in its manifest
\* does not fail before the file test (it ends with the file-missing error, or
\* later on the copy, or with the path of the copy).
C31_PathFromOneBuild ==
  /\ \A c \in FixCallers : ResolvedFromOwnBuild(task[c])
  /\ ResolvedFromOwnBuild(last)
  /\ (last.op = "getFixture" /\ last.pc = "failed" /\ last.m.set
        /\ last.key \in DOMAIN last.m.map) =>
       last.error \in {"FixtureFileMissing", "CopyFailed"}

\* C32: a dropTestDb() call resolves to true exactly when dropDatabase() has
\* succeeded during the call; a call that resolved to false has dropped nothing.
C32_TrueIffDropped ==
  dbPc = "done" => ((dbResult = "true") <=> dbEffect)

\* C33: no connection that a dropTestDb() call opened is still open when the call
\* has returned, whichever step of the call raised.
C33_ConnectionClosed ==
  dbPc \in {"done", "idle"} => dbConnOpen = 0

\* C34: no step of a getFixture() call up to and including its file test touches
\* the files, the temp directories or `tempDir`, so a call that ends with
\* key-not-found or file-missing has made no temp directory and no copy; it has
\* not even asked for the temp directory.
C34_FailedCallNoEffect ==
  [][/\ \A c \in FixCallers :
          (/\ task'[c] # task[c]
           /\ task[c].pc \in {"idle", "readStandard", "readCustom", "gotManifest", "access"}
           /\ (task[c].op = "getFixture" \/ task'[c].op = "getFixture")) =>
            UNCHANGED <<disk, tmpDirs, tempDir, mkdtemps>>
     /\ (last'.op = "getFixture"
           /\ last'.error \in {"FixtureKeyNotFound", "FixtureFileMissing"}) =>
          (last'.tmp = 0 /\ last'.destPath = NoPath)]_vars

\* C34 witness: a getFixture() call has ended with file-missing while the
\* workspace of an earlier call exists, holding the one copy made before.
C34_Witness ==
  /\ last.op = "getFixture" /\ last.error = "FixtureFileMissing"
  /\ tempDir = 1 /\ tmpDirs = {1} /\ mkdtemps = 1
  /\ Cardinality({p \in DOMAIN disk : IsTempPath(p)}) = 1
  /\ \A c \in FixCallers : task[c].pc = "idle"

\* C35: the fs.rm() of a cleanupFixtures() call deletes no copy whose path
\* getFixture() returned after that cleanupFixtures() was called, and no
\* getFixture() call finds the temp directory it was given gone when it copies.
C35_CopiesOutliveOlderCleanup ==
  [][\A c \in FixCallers :
       /\ (task[c].pc = "rm" /\ task'[c] # task[c]) =>
            \A p \in returned : p \in DOMAIN disk => p \in DOMAIN disk'
       /\ (task[c].pc = "copyFile" /\ task'[c] # task[c]) =>
            task[c].tmp \in tmpDirs]_vars

\* C36: when a cleanupFixtures() call completes, its directory is gone and
\* `tempDir` is unset; a getFixture() call that asks for the temp directory while
\* `tempDir` is unset has fs.mkdtemp() make a directory that never existed
\* before, and one that finds `tempDir` set is given that directory; the path a
\* call returns is the path of a file in a directory that exists.
C36_WorkspaceRecreated ==
  [][\A c \in FixCallers :
       /\ (task[c].pc = "rm" /\ task'[c] # task[c]) =>
            (tempDir' = 0 /\ task[c].tmp \notin tmpDirs')
       /\ (task[c].pc = "access" /\ task'[c].pc \in {"mkdtemp", "gotTempDir"}) =>
            IF tempDir = 0 THEN task'[c].pc = "mkdtemp"
            ELSE task'[c].tmp = tempDir
       /\ (task[c].pc = "mkdtemp" /\ task'[c] # task[c]) =>
            /\ task'[c].tmp = tempDir'
            /\ tempDir' > mkdtemps /\ tempDir' \notin tmpDirs /\ tempDir' \in tmpDirs'
       /\ (task[c].pc = "copyFile" /\ task'[c].pc = "idle" /\ last'.pc = "done") =>
            (last'.destPath.tmp \in tmpDirs' /\ last'.destPath \in DOMAIN disk')]_vars

\* C36 witness: the first workspace was removed by a cleanupFixtures() call, and
\* the getFixture() call made next, the third call, has returned a copy in a
\* second workspace.
C36_Witness ==
  /\ last.op = "getFixture" /\ last.pc = "done" /\ last.sawStandard = "unread"
  /\ last.destPath.tmp = 2 /\ last.destPath \in DOMAIN disk
  /\ mkdtemps = 2 /\ tmpDirs = {2} /\ tempDir = 2 /\ fixCalls = 3
  /\ \A c \in FixCallers : task[c].pc = "idle"

\* Caller c's getManifest() ends in this step with the configuration-missing error.
FailsOnMissingManifests(c) ==
  /\ task[c].pc \in {"readStandard", "readCustom"}
  /\ task'[c].pc = "idle" /\ last'.pc = "failed" /\ last'.error = "ConfigurationMissing"

\* C37: the step in which getManifest() fails for want of any manifest leaves
\* `manifest` and `resolvedDirs` as they were; a call that starts while `manifest`
\* is unset reads the manifests from disk, with no resetManifest() needed; and a
\* call whose reads found a manifest builds and succeeds.
C37_FailureNotCached ==
  [][\A c \in FixCallers :
       /\ FailsOnMissingManifests(c) =>
            /\ UNCHANGED <<manifest, resolvedDirs>>
            /\ last'.sawStandard = "absent" /\ last'.sawCustom \in {"absent", "unread"}
       /\ (task[c].pc = "idle" /\ task'[c].op \in {"getManifest", "getFixture"}
             /\ ~manifest.set) =>
            task'[c].pc = "readStandard"
       /\ (task[c].pc = "readStandard" /\ task'[c] # task[c]
             /\ standardFile.kind = "json" /\ task[c].customDir = "") =>
            (BuildsManifest(c) /\ manifest'.set /\ manifest'.map = standardFile.map)
       /\ (task[c].pc = "readCustom" /\ task'[c] # task[c]
             /\ customFile.kind # "malformed"
             /\ (customFile.kind = "json" \/ ~task[c].standard.isNull)) =>
            /\ BuildsManifest(c) /\ manifest'.set
            /\ manifest'.map = MergedManifest(task[c].standard, ReadManifest(customFile))]_vars

\* C37 witness: the first call, a getManifest(), failed for want of any manifest;
\* the fixture files were then put in place; the second call, with no reset in
\* between, has read them and holds the manifest it built, which is now cached.
C37_Witness ==
  /\ last.op = "getManifest" /\ last.error = "ConfigurationMissing"
  /\ fixCalls = 2 /\ envSteps = 1 /\ manifest.set
  /\ \E c \in FixCallers :
       /\ task[c].op = "getFixture" /\ task[c].pc = "gotManifest"
       /\ task[c].m = manifest /\ task[c].sawStandard # "unread"

\* The spec files of the names of the command line, in the order of the names.
NamedSuites == [i \in 1..Len(args) |-> [dir |-> "tests", name |-> args[i] \o SpecExt]]

\* C38: with names on the command line the files of <ROOT>/tests in the selection
\* are the files of the names, one entry for each name in the order given (a
\* name given twice gives two entries), and nothing else: while the names are
\* gone through the selection is the files of the names seen so far, and from
\* then on it is those of all names, followed by the override directory's files.
C38_NamedSuitesInOrder ==
  Len(args) > 0 =>
    /\ (runPc = "collect" \/ (runPc = "exited" /\ entryWrites = 0)) =>
         testFiles = SubSeq(NamedSuites, 1, argIdx - 1)
    /\ runPc = "custom" => testFiles = NamedSuites
    /\ (runPc \in {"drop", "write", "exec", "finally"}
          \/ (runPc = "exited" /\ entryWrites = 1)) =>
         testFiles = NamedSuites \o OverrideSelection

\* C38 witness: the tests were launched on b.spec.js twice, as named twice, while
\* <ROOT>/tests holds a.spec.js as well.
C38_Witness ==
  /\ args = <<StemB, StemB>> /\ (StemA \o SpecExt) \in testsDirFiles
  /\ Len(testFiles) = 2 /\ testFiles[1] = testFiles[2]
  /\ launches = <<testFiles>>

====
